---- MODULE Spec2Model ----
(***************************************************************************)
(* Streamflow memory allocator (allocators/streamflow/streamflow).         *)
(*                                                                         *)
(* The module models the allocator of streamflow.h as built by its         *)
(* Makefile (64-bit, RADIX_TREE meta information, no NUMA, no HEADERS):    *)
(*   - the size-class functions and the request routing of malloc;        *)
(*   - the buddy allocator of a superpage and the superpage list;          *)
(*   - the lock-free LIFO of queue.h that holds the global pageblock      *)
(*     lists;                                                              *)
(*   - pageblocks, thread-local heaps, malloc, free (local, remote,        *)
(*     adoption), garbage collection and thread finalization, at the       *)
(*     granularity of their accesses to shared memory.                     *)
(*                                                                         *)
(* Specifications:                                                         *)
(*   SpecSize   one malloc request, its routing and the slot geometry      *)
(*   SpecBuddy  one thread driving supermap / superunmap                   *)
(*   SpecLifo   threads pushing and popping one lock-free LIFO             *)
(*   Spec       threads calling malloc / free / exiting, any interleaving  *)
(*   SpecRace   the same actions, each thread running a fixed call list    *)
(***************************************************************************)
EXTENDS Integers, Naturals, Sequences, FiniteSets, TLC

(***************************************************************************)
(* Program constants (x86_64 section of streamflow.h).                     *)
(***************************************************************************)
PAGE_SIZE == 4096
CACHE_LINE_SIZE == 128
\* HEADER_SIZE is sizeof(void*): 8 on the 64-bit builds.
HEADER_SIZE == 8
OBJECT_GRANULARITY == HEADER_SIZE
MAX_OBJECT_SIZE == 16576
MAX_PRIVATE_INACTIVE == 4
MAX_GLOBAL_INACTIVE == 0
OBJECTS_PER_PAGEBLOCK == 1024
\* ORPHAN is UINT_MAX, written as the same 32 bits read as a signed
\* integer; it is only compared for equality with thread ids.
ORPHAN == -1
NULL == 0

OBJECT_SMALL == 0
OBJECT_MEDIUM == 1
OBJECT_LARGE == 2

(***************************************************************************)
(* Bounds of the model.  The superpage and the pageblocks are scaled down  *)
(* so that pageblocks fill up and superpages empty within a few calls;     *)
(* every formula of the code is kept and evaluated on the scaled sizes.    *)
(***************************************************************************)
\* BUDDY_ORDER_MAX of the x86_64 build is 12 (a superpage of 2^11 pages).
BuddyOrders == 4
\* log2 of MAX_PAGEBLOCK_SIZE / PAGE_SIZE (6 in the code: 64 pages).
MaxPageblockLog == 2

BUDDY_ORDER_MAX == BuddyOrders
PAGES_PER_SUPERPAGE == 2 ^ (BUDDY_ORDER_MAX - 1)
SUPERPAGE_SIZE == PAGES_PER_SUPERPAGE * PAGE_SIZE
MIN_PAGEBLOCK_SIZE == 4 * PAGE_SIZE
MAX_PAGEBLOCK_SIZE == (2 ^ MaxPageblockLog) * PAGE_SIZE

Max(a, b) == IF a > b THEN a ELSE b
Min(a, b) == IF a < b THEN a ELSE b

(***************************************************************************)
(* Size classes.  The tables are those of the source; a C index i is the   *)
(* TLA+ index i + 1.                                                       *)
(***************************************************************************)
base ==
  << 0, 16, 24, 28, 30, 31, 31, 32, 32, 32,
     32, 33, 33, 33, 33, 34, 34, 34, 34, 35,
     35, 35, 35, 36, 36, 36, 36, 37, 37, 37,
     37, 38, 38, 38, 38, 39, 39, 39, 39, 40,
     40, 40, 40, 41, 41, 41, 41, 42, 42, 42,
     42, 43, 43, 43, 43, 44, 44, 44, 44, 45,
     45, 45, 45, 46, 46, 46, 46, 47, 47, 47,
     47, 48, 48, 48, 48, 49, 49, 49, 49, 50,
     50, 50, 50, 51, 51, 51, 51, 52, 52, 52,
     52, 53, 53, 53, 53, 54, 54, 54, 54, 55,
     55, 55, 55, 56, 56, 56, 56, 57, 57, 57,
     57, 58, 58, 58, 58, 59, 59, 59, 59, 60,
     60, 60, 60, 61, 61, 61, 61, 62, 62, 62,
     62, 63, 63, 63, 63, 64, 64, 64, 64, 65,
     65, 65, 65, 66, 66, 66, 66, 67, 67, 67,
     67, 68, 68, 68, 68, 69, 69, 69, 69, 70,
     70, 70, 70, 71, 71, 71, 71, 72, 72, 72,
     72, 73, 73, 73, 73, 74, 74, 74, 74, 75,
     75, 75, 75, 76, 76, 76, 76, 77, 77, 77,
     77, 78, 78, 78, 78, 79, 79, 79, 79, 80,
     80, 80, 80, 81, 81, 81, 81, 82, 82, 82,
     82, 83, 83, 83, 83, 84, 84, 84, 84, 85,
     85, 85, 85, 86, 86, 86, 86, 87, 87, 87,
     87, 88, 88, 88, 88, 89, 89, 89, 89, 90,
     90, 90, 90, 91, 91, 91, 91, 92, 92, 92,
     92, 93, 93, 93, 93, 94, 94, 94, 94 >>

factor ==
  << 4, 8, 16, 32, 64, 128, 256, 256, 256, 256,
     256, 256, 256, 256, 256, 256, 256, 256, 256, 256,
     256, 256, 256, 256, 256, 256, 256, 256, 256, 256,
     256, 256, 256, 256, 256, 256, 256, 256, 256, 256,
     256, 256, 256, 256, 256, 256, 256, 256, 256, 256,
     256, 256, 256, 256, 256, 256, 256, 256, 256, 256,
     256, 256, 256, 256, 256, 256, 256, 256, 256, 256,
     256, 256, 256, 256, 256, 256, 256, 256, 256, 256,
     256, 256, 256, 256, 256, 256, 256, 256, 256, 256,
     256, 256, 256, 256, 256, 256, 256, 256, 256, 256,
     256, 256, 256, 256, 256, 256, 256, 256, 256, 256,
     256, 256, 256, 256, 256, 256, 256, 256, 256, 256,
     256, 256, 256, 256, 256, 256, 256, 256, 256, 256,
     256, 256, 256, 256, 256, 256, 256, 256, 256, 256,
     256, 256, 256, 256, 256, 256, 256, 256, 256, 256,
     256, 256, 256, 256, 256, 256, 256, 256, 256, 256,
     256, 256, 256, 256, 256, 256, 256, 256, 256, 256,
     256, 256, 256, 256, 256, 256, 256, 256, 256, 256,
     256, 256, 256, 256, 256, 256, 256, 256, 256, 256,
     256, 256, 256, 256, 256, 256, 256, 256, 256, 256,
     256, 256, 256, 256, 256, 256, 256, 256, 256, 256,
     256, 256, 256, 256, 256, 256, 256, 256, 256, 256,
     256, 256, 256, 256, 256, 256, 256, 256, 256, 256,
     256, 256, 256, 256, 256, 256, 256, 256, 256, 256,
     256, 256, 256, 256, 256, 256, 256, 256, 256, 256,
     256, 256, 256, 256, 256, 256, 256, 256, 256 >>

reverse ==
  << 4, 8, 12, 16, 20, 24, 28, 32, 36, 40,
     44, 48, 52, 56, 60, 64, 72, 80, 88, 96,
     104, 112, 120, 128, 144, 160, 176, 192, 224, 256,
     320, 448, 704, 960, 1216, 1472, 1728, 1984, 2240, 2496,
     2752, 3008, 3264, 3520, 3776, 4032, 4288, 4544, 4800, 5056,
     5312, 5568, 5824, 6080, 6336, 6592, 6848, 7104, 7360, 7616,
     7872, 8128, 8384, 8640, 8896, 9152, 9408, 9664, 9920, 10176,
     10432, 10688, 10944, 11200, 11456, 11712, 11968, 12224, 12480, 12736,
     12992, 13248, 13504, 13760, 14016, 14272, 14528, 14784, 15040, 15296,
     15552, 15808, 16064, 16320, 16576 >>

(***************************************************************************)
(* quick_log2: a switch over the powers of two.  8192 maps to 12 in the   *)
(* source; arguments outside the table hit assert(0), modelled as -1       *)
(* (the value returned when assertions are compiled out).                  *)
(***************************************************************************)
quick_log2(x) ==
    CASE x = 1 -> 0
      [] x = 2 -> 1
      [] x = 4 -> 2
      [] x = 8 -> 3
      [] x = 16 -> 4
      [] x = 32 -> 5
      [] x = 64 -> 6
      [] x = 128 -> 7
      [] x = 256 -> 8
      [] x = 512 -> 9
      [] x = 1024 -> 10
      [] x = 2048 -> 11
      [] x = 4096 -> 12
      [] x = 8192 -> 12
      [] x = 16384 -> 13
      [] OTHER -> -1

\* A variant of the classification that takes the position of a multiple of
\* 64 for every size.
malloc_compute_size_class_low(size0) ==
    LET size == IF size0 < OBJECT_GRANULARITY THEN OBJECT_GRANULARITY ELSE size0
        half == CACHE_LINE_SIZE \div 2
        bin == (size - 1) \div half
        position == (size - 2) % half
    IN  base[bin + 1] + (position \div factor[bin + 1])

compute_size_class(size0) ==
    LET size == IF size0 < OBJECT_GRANULARITY THEN OBJECT_GRANULARITY ELSE size0
        half == CACHE_LINE_SIZE \div 2
        bin == IF size % half = 0 THEN (size - 1) \div half ELSE size \div half
        position == IF size % half = 0 THEN (size - 2) % half ELSE (size - 1) % half
    IN  base[bin + 1] + (position \div factor[bin + 1])

\* Variants of the classification that do not step back to the bin below
\* for a multiple of 64.
malloc_compute_size_class_bin(size0) ==
    LET size == IF size0 < OBJECT_GRANULARITY THEN OBJECT_GRANULARITY ELSE size0
        half == CACHE_LINE_SIZE \div 2
    IN  base[size \div half + 1] + (((size - 1) % half) \div factor[size \div half + 1])

malloc_compute_size_class(size0) ==
    LET size == IF size0 < OBJECT_GRANULARITY THEN OBJECT_GRANULARITY ELSE size0
        half == CACHE_LINE_SIZE \div 2
        bin == IF size % half = 0 THEN (size - 1) \div half ELSE size \div half
        position == IF size % half = 0 THEN (size - 2) % half ELSE (size - 1) % half
    IN  base[bin + 1] + (position \div factor[bin + 1])

free_compute_size_class_bin(size0) ==
    LET size == IF size0 < OBJECT_GRANULARITY THEN OBJECT_GRANULARITY ELSE size0
        half == CACHE_LINE_SIZE \div 2
    IN  base[size \div half + 1] + (((size - 1) % half) \div factor[size \div half + 1])

free_compute_size_class(size0) ==
    LET size == IF size0 < OBJECT_GRANULARITY THEN OBJECT_GRANULARITY ELSE size0
        half == CACHE_LINE_SIZE \div 2
        bin == IF size % half = 0 THEN (size - 1) \div half ELSE size \div half
        position == IF size % half = 0 THEN (size - 2) % half ELSE (size - 1) % half
    IN  base[bin + 1] + (position \div factor[bin + 1])

reverse_size_class(size_class) == reverse[size_class + 1]

\* ceil(a / b) for positive integers.
CeilDiv(a, b) == (a + b - 1) \div b

\* ceil(log2(x)) for x >= 1: the least p with 2^p >= x.
RECURSIVE CeilLog2From(_, _)
CeilLog2From(x, p) == IF 2 ^ p >= x THEN p ELSE CeilLog2From(x, p + 1)
CeilLog2(x) == CeilLog2From(x, 0)

\* ceil(log2(x) + 0.5) for x >= 1: the least p with 2^p >= x * sqrt(2),
\* i.e. with 2^(2p) >= 2 * x * x.  It is evaluated on x counted in pages
\* (x = pages * 2^12, so p = 12 + least q with 2^(2q) >= 2 * pages^2) to
\* stay inside 32-bit arithmetic.
RECURSIVE CeilLog2HalfFrom(_, _)
CeilLog2HalfFrom(pages, q) ==
    IF 2 ^ (2 * q) >= 2 * pages * pages THEN q ELSE CeilLog2HalfFrom(pages, q + 1)

\* The size of the pageblock header rounded to cache lines:
\* ceil(sizeof(pageblock_t) / CACHE_LINE_SIZE) * CACHE_LINE_SIZE.
SIZEOF_PAGEBLOCK == 72
MemPoolOffset == CeilDiv(SIZEOF_PAGEBLOCK, CACHE_LINE_SIZE) * CACHE_LINE_SIZE

compute_pageblock_size(index) ==
    LET pages == CeilDiv(reverse_size_class(index) * OBJECTS_PER_PAGEBLOCK, PAGE_SIZE)
        suggestion == (2 ^ CeilLog2HalfFrom(pages, 0)) * PAGE_SIZE
    IN  IF suggestion < MIN_PAGEBLOCK_SIZE THEN MIN_PAGEBLOCK_SIZE
        ELSE IF suggestion > MAX_PAGEBLOCK_SIZE THEN MAX_PAGEBLOCK_SIZE
        ELSE suggestion

\* size_index of get_free_pageblock / insert_global_free_pageblocks.
pageblock_size_index(pageblock_size) ==
    quick_log2(pageblock_size \div PAGE_SIZE) - quick_log2(MIN_PAGEBLOCK_SIZE \div PAGE_SIZE)

\* The rounding of medium_or_large_alloc for size <= SUPERPAGE_SIZE: up to
\* pages, then up to a power of two.
medium_size(size) == 2 ^ CeilLog2(CeilDiv(size, PAGE_SIZE) * PAGE_SIZE)

(***************************************************************************)
(* malloc's routing of one request, and the pointer it returns.  For a     *)
(* small request the pointer is slot number `idx' of a pageblock (the      *)
(* offset is taken from the pageblock's first byte, which is page          *)
(* aligned); a medium request gets the first byte of a buddy chunk, a      *)
(* large one the first byte of a mapping.                                  *)
(***************************************************************************)
\* NoResult is the NULL that malloc(0) returns; Pending stands for a call
\* that has not been made yet.
NoResult == [kind |-> -1, index |-> 0, usable |-> 0, offset |-> 0]
Pending == [kind |-> -2, index |-> 0, usable |-> 0, offset |-> 0]

\* A routing that maps every request above MAX_OBJECT_SIZE directly.
malloc_route_mapped(requested_size, idx) ==
    IF requested_size = 0 THEN NoResult
    ELSE IF requested_size > MAX_OBJECT_SIZE
    THEN [kind |-> OBJECT_LARGE, index |-> 0, usable |-> requested_size, offset |-> 0]
    ELSE [kind |-> OBJECT_SMALL, index |-> malloc_compute_size_class(requested_size),
          usable |-> reverse_size_class(malloc_compute_size_class(requested_size)),
          offset |-> MemPoolOffset
                       + (idx - 1) * reverse_size_class(
                                         malloc_compute_size_class(requested_size))]

malloc_route(requested_size, idx) ==
    IF requested_size = 0 THEN NoResult
    ELSE IF requested_size > MAX_OBJECT_SIZE
    THEN IF requested_size <= SUPERPAGE_SIZE
         THEN [kind |-> OBJECT_MEDIUM, index |-> 0,
               usable |-> medium_size(requested_size), offset |-> 0]
         ELSE [kind |-> OBJECT_LARGE, index |-> 0,
               usable |-> requested_size, offset |-> 0]
    ELSE LET index == malloc_compute_size_class(requested_size)
             object_size == reverse_size_class(index)
         IN  [kind |-> OBJECT_SMALL, index |-> index, usable |-> object_size,
              offset |-> MemPoolOffset + (idx - 1) * object_size]

(***************************************************************************)
(* Doubly linked lists (double_list_t) as sequences, head first.           *)
(***************************************************************************)
double_list_insert_front(new_node, list) == <<new_node>> \o list

double_list_rotate_back(list) ==
    IF Len(list) <= 1 THEN list ELSE Tail(list) \o <<Head(list)>>

double_list_remove(node, list) == SelectSeq(list, LAMBDA e : e # node)

SeqSet(s) == {s[i] : i \in 1..Len(s)}

(***************************************************************************)
(* The page provider (mmap / munmap).  Address space is a row of regions   *)
(* of RegionSize bytes; a mapping takes the lowest region that is free.    *)
(* mapped[r] is the number of bytes mapped in region r, from its base on    *)
(* after page_alloc; 0 when the region is free.                            *)
(***************************************************************************)
MaxRegions == 3
Regions == 1..MaxRegions
RegionSize == 4 * SUPERPAGE_SIZE
RegionBase(r) == r * RegionSize
RegionOf(addr) == addr \div RegionSize

FreeRegions(mp) == {r \in Regions : mp[r] = 0}
LowestFree(mp) == CHOOSE r \in FreeRegions(mp) : \A q \in FreeRegions(mp) : r <= q

\* page_alloc: the address of a fresh mapping of `size' bytes.
page_alloc_addr(mp) == RegionBase(LowestFree(mp))
page_alloc_map(mp, size) == [mp EXCEPT ![LowestFree(mp)] = size]
\* The bytes of the mapping of its region that munmap(start, length)
\* covers.
page_free_overlap(mp, start, length) ==
    LET size == mp[RegionOf(start)]
        off == start - RegionBase(RegionOf(start))
    IN  Max(0, Min(size, off + length) - Min(size, off))

\* A munmap that unmaps nothing.
page_free_keep(mp, start, length) == mp

\* page_free: munmap(start, length).
page_free_map(mp, start, length) ==
    [mp EXCEPT ![RegionOf(start)] = @ - page_free_overlap(mp, start, length)]

\* Whether munmap(start, length) is given exactly one mapping: its base
\* address and its whole length.
page_free_exact(mp, start, length) ==
    /\ start = RegionBase(RegionOf(start))
    /\ mp[RegionOf(start)] # 0
    /\ length = mp[RegionOf(start)]

(***************************************************************************)
(* Superpages and the buddy allocator.  A superpage header is              *)
(*   page_pool           address of the superpage                          *)
(*   free_list[o]        free chunks of 2^o pages, head first              *)
(*   bitmap[o]           the bits set in the bitmap of order o             *)
(*   largest_free_order                                                    *)
(***************************************************************************)
Orders == 0..(BUDDY_ORDER_MAX - 1)

find_index(super, chunk, order) ==
    (chunk - super.page_pool) \div (PAGE_SIZE * (2 ^ order))

\* A buddy computation that always looks to the right.
find_buddy_right(super, chunk, order) == chunk + (2 ^ order) * PAGE_SIZE

find_buddy(super, chunk, order) ==
    IF find_index(super, chunk, order) % 2 = 0
    THEN chunk + (2 ^ order) * PAGE_SIZE
    ELSE chunk - (2 ^ order) * PAGE_SIZE

find_bit_index(super, chunk, order) ==
    LET i == find_index(super, chunk, order)
    IN  (IF i % 2 # 0 THEN i - 1 ELSE i) \div 2

\* A bit operation that leaves the bitmap as it is.
change_bit_none(nr, bits) == bits

\* __change_bit / __test_and_change_bit on the bitmap of one order.
change_bit(nr, bits) == IF nr \in bits THEN bits \ {nr} ELSE bits \cup {nr}
test_bit(nr, bits) == nr \in bits

\* A splitting loop that puts the right half on the free list and goes on
\* with the left half.
RECURSIVE buddy_split_left(_, _, _, _)
buddy_split_left(super, chunk, curr_order, order) ==
    IF curr_order > order
    THEN LET lower == curr_order - 1
             buddy == chunk + (2 ^ lower) * PAGE_SIZE
             s2 == [super EXCEPT
                      !.free_list[lower] = double_list_insert_front(buddy, @),
                      !.bitmap[lower] = change_bit(find_bit_index(super, buddy, lower), @)]
         IN  buddy_split_left(s2, chunk, lower, order)
    ELSE [super |-> super, chunk |-> chunk]

\* The splitting loop of buddy_alloc: the left half goes on the free list
\* of the lower order, the right half is split further or returned.
RECURSIVE buddy_split(_, _, _, _)
buddy_split(super, chunk, curr_order, order) ==
    IF curr_order > order
    THEN LET lower == curr_order - 1
             buddy == chunk + (2 ^ lower) * PAGE_SIZE
             s2 == [super EXCEPT
                      !.free_list[lower] = double_list_insert_front(chunk, @),
                      !.bitmap[lower] = change_bit(find_bit_index(super, chunk, lower), @)]
         IN  buddy_split(s2, buddy, lower, order)
    ELSE [super |-> super, chunk |-> chunk]

\* A tail of buddy_alloc that leaves largest_free_order as it is.
buddy_largest_kept(order_max, super) == super

\* The tail of buddy_alloc: recompute largest_free_order when its list is
\* empty.  order_max is BUDDY_ORDER_MAX of the build.
buddy_largest_in(order_max, super) ==
    IF super.free_list[super.largest_free_order] = <<>>
    THEN LET below == {o \in 0..(order_max - 1) : o < super.largest_free_order
                                      /\ super.free_list[o] # <<>>}
         IN  IF below = {}
             THEN [super EXCEPT !.largest_free_order = order_max + 1]
             ELSE [super EXCEPT !.largest_free_order =
                       CHOOSE o \in below : \A q \in below : q <= o]
    ELSE super

buddy_largest(super) == buddy_largest_in(BUDDY_ORDER_MAX, super)

\* buddy_alloc(super, size) of a build with BUDDY_ORDER_MAX = order_max:
\* the superpage afterwards, the chunk returned and the order at which
\* the splitting stopped.  get_free_superpage hands over a superpage that
\* has a free chunk of a sufficient order.
buddy_alloc_in(order_max, super, size) ==
    LET order == quick_log2(size \div PAGE_SIZE)
        fit == {o \in 0..(order_max - 1) : o >= order /\ super.free_list[o] # <<>>}
        curr_order == CHOOSE o \in fit : \A q \in fit : o <= q
        chunk == Head(super.free_list[curr_order])
        s1 == [super EXCEPT
                 !.free_list[curr_order] = double_list_remove(chunk, @),
                 !.bitmap[curr_order] =
                     change_bit(find_bit_index(super, chunk, curr_order), @)]
        sp == buddy_split(s1, chunk, curr_order, order)
    IN  [super |-> buddy_largest_in(order_max, sp.super), chunk |-> sp.chunk,
         order |-> order]

buddy_alloc(super, size) == buddy_alloc_in(BUDDY_ORDER_MAX, super, size)

\* A merging loop that stops before its first pass.
buddy_merge_none(super, chunk, curr_order) ==
    [super |-> super, chunk |-> chunk, curr_order |-> curr_order]

\* The merging loop of buddy_free.
RECURSIVE buddy_merge(_, _, _)
buddy_merge(super, chunk, curr_order) ==
    IF curr_order < BUDDY_ORDER_MAX - 1
    THEN LET nr == find_bit_index(super, chunk, curr_order)
             was == test_bit(nr, super.bitmap[curr_order])
             s1 == [super EXCEPT !.bitmap[curr_order] = change_bit(nr, @)]
         IN  IF ~was
             THEN [super |-> s1, chunk |-> chunk, curr_order |-> curr_order]
             ELSE LET buddy == find_buddy(super, chunk, curr_order)
                      s2 == [s1 EXCEPT !.free_list[curr_order] =
                                           double_list_remove(buddy, @)]
                      up == IF find_index(super, chunk, curr_order) % 2 # 0
                            THEN buddy ELSE chunk
                  IN  buddy_merge(s2, up, curr_order + 1)
    ELSE [super |-> super, chunk |-> chunk, curr_order |-> curr_order]

\* buddy_free(super, start, length): the superpage afterwards, and whether
\* the chunk merged back into the whole superpage (which is then returned
\* to the page provider by the caller's page_free / quickie_free).
buddy_free(super, start, length) ==
    LET order == quick_log2(length \div PAGE_SIZE)
        m == buddy_merge(super, start, order)
    IN  IF m.curr_order < BUDDY_ORDER_MAX - 1
        THEN [whole |-> FALSE, chunk |-> m.chunk,
              super |-> [m.super EXCEPT
                  !.free_list[m.curr_order] = double_list_insert_front(m.chunk, @),
                  !.largest_free_order =
                      IF m.curr_order > @ \/ @ > BUDDY_ORDER_MAX
                      THEN m.curr_order ELSE @]]
        ELSE [whole |-> TRUE, chunk |-> m.chunk, super |-> m.super]

(***************************************************************************)
(* Superpage headers come from a quickieblock: a freed header is reused    *)
(* first (LIFO), else the next unused one.  Headers are named 1, 2, ...;   *)
(* the pages that hold them are not part of the modelled address space.    *)
(***************************************************************************)
SphIds == 1..MaxRegions
NoSuper == [page_pool |-> NULL,
            free_list |-> [o \in Orders |-> <<>>],
            bitmap |-> [o \in Orders |-> {}],
            largest_free_order |-> 0]

quickie_alloc(quickie) ==
    IF quickie.freed # <<>>
    THEN [object |-> Head(quickie.freed),
          quickie |-> [quickie EXCEPT !.freed = Tail(@)]]
    ELSE [object |-> quickie.unallocated + 1,
          quickie |-> [quickie EXCEPT !.unallocated = @ + 1]]

\* A quickie_free that forgets the object.
quickie_free_none(quickie, object) == quickie

quickie_free(quickie, object) == [quickie EXCEPT !.freed = <<object>> \o @]

(***************************************************************************)
(* The state that super_lock protects, as one record:                      *)
(*   list     superpage_list (header ids, head first)                      *)
(*   supers   the superpage headers                                        *)
(*   quickie  sph_pageblocks                                               *)
(*   mapped   the page provider                                            *)
(*   stray    number of page_free calls on a range that is not exactly     *)
(*            one mapping (its base address and its whole length)          *)
(***************************************************************************)
get_free_superpage(B, size) ==
    LET has_room(h) == B.supers[h].largest_free_order < BUDDY_ORDER_MAX
                       /\ 2 ^ B.supers[h].largest_free_order >= size \div PAGE_SIZE
        found == {i \in 1..Len(B.list) : has_room(B.list[i])}
    IN  IF found # {}
        THEN [B |-> B, super |-> B.list[CHOOSE i \in found : \A j \in found : i <= j]]
        ELSE LET q == quickie_alloc(B.quickie)
                 fresh == [page_pool |-> page_alloc_addr(B.mapped),
                           free_list |-> [o \in Orders |->
                               IF o = BUDDY_ORDER_MAX - 1
                               THEN <<page_alloc_addr(B.mapped)>> ELSE <<>>],
                           bitmap |-> [o \in Orders |-> {}],
                           largest_free_order |-> BUDDY_ORDER_MAX - 1]
             IN  [B |-> [B EXCEPT !.quickie = q.quickie,
                                  !.mapped = page_alloc_map(@, SUPERPAGE_SIZE),
                                  !.supers[q.object] = fresh,
                                  !.list = double_list_insert_front(q.object, @)],
                  super |-> q.object]

\* Whether supermap(size) can proceed without a new mapping, or the page
\* provider still has room for one (page_alloc exits the process when
\* mmap fails).
can_supermap(B, size) ==
    \/ FreeRegions(B.mapped) # {}
    \/ \E i \in 1..Len(B.list) :
          /\ B.supers[B.list[i]].largest_free_order < BUDDY_ORDER_MAX
          /\ 2 ^ B.supers[B.list[i]].largest_free_order >= size \div PAGE_SIZE

\* The critical section of supermap: get_free_superpage, then buddy_alloc
\* on the superpage it found.  Each of the two is the one element of a
\* set, so that its result is computed once.
supermap_locked(B, size) ==
    LET taken(g, a) == [B |-> [g.B EXCEPT !.supers[g.super] = a.super],
                        pages |-> a.chunk, sph |-> g.super]
        chunk_of(g) == CHOOSE r \in {taken(g, a) :
                                       a \in {buddy_alloc(g.B.supers[g.super], size)}} : TRUE
    IN  CHOOSE r \in {chunk_of(g) : g \in {get_free_superpage(B, size)}} : TRUE

\* The critical section of superunmap: buddy_free, and when the superpage
\* is whole again page_free, removal from superpage_list, quickie_free.
superunmap_locked(B, super, start, length) ==
    LET f == buddy_free(B.supers[super], start, length)
    IN  IF f.whole
        THEN [B EXCEPT
                !.stray = IF page_free_exact(B.mapped, f.chunk, SUPERPAGE_SIZE)
                          THEN @ ELSE @ + 1,
                !.mapped = page_free_map(@, f.chunk, SUPERPAGE_SIZE),
                !.list = double_list_remove(super, @),
                !.quickie = quickie_free(@, super),
                !.supers[super] = NoSuper]
        ELSE [B EXCEPT !.supers[super] = f.super]


(***************************************************************************)
(* Atomic primitives (atomic.h) and the spin lock (lock.h), as functions   *)
(* from the old contents of a cell to the result and the new contents.     *)
(***************************************************************************)
\* An exchange that reports the cell as having been free.
fetch_and_store_blind(cell, value) == [old |-> 0, new |-> value]

fetch_and_store(cell, value) == [old |-> cell, new |-> value]

\* A fetch-and-add that returns the value before the addition.
atmc_fetch_and_add_old(cell, value) == [ret |-> cell, new |-> cell + value]

atmc_fetch_and_add(cell, value) == [ret |-> cell + value, new |-> cell + value]

compare_and_swap(cell, old, new) ==
    [ok |-> cell = old, new |-> IF cell = old THEN new ELSE cell]

\* spin_lock leaves its loop when fetch_and_store(lock, 1) returned 0.
spin_lock_acquires(lock) == fetch_and_store(lock, 1).old = 0
spin_lock_new(lock) == fetch_and_store(lock, 1).new
\* An unlock that leaves the lock word as spin_lock set it.
spin_unlock_kept == fetch_and_store(0, 1).new

spin_unlock_new == 0

(***************************************************************************)
(* The lock-free LIFO of queue.h: the head is the single word `top', an    *)
(* element's link is its `next' field.                                     *)
(***************************************************************************)
\* lf_lifo_dequeue, up to its compare_and_swap64: head.top and next.top.
lf_lifo_dequeue_read(top, next_of) ==
    [head |-> top, next |-> IF top = NULL THEN NULL ELSE next_of[top]]

\* lf_lifo_dequeue's compare_and_swap64(&queue->both, head, next).
lf_lifo_dequeue_cas(top, snap) == compare_and_swap(top, snap.head, snap.next)

\* lf_lifo_enqueue's compare_and_swap64(&queue->both, old_top, element).
lf_lifo_enqueue_cas(top, old_top, element) == compare_and_swap(top, old_top, element)

\* The elements linked from `top' (at most `fuel' links are followed).
RECURSIVE Linked(_, _, _)
Linked(top, next_of, fuel) ==
    IF top = NULL \/ fuel = 0 THEN {}
    ELSE {top} \cup Linked(next_of[top], next_of, fuel - 1)

RECURSIVE LinkedLen(_, _, _)
LinkedLen(top, next_of, fuel) ==
    IF top = NULL \/ fuel = 0 THEN 0
    ELSE 1 + LinkedLen(next_of[top], next_of, fuel - 1)

(***************************************************************************)
(* Pageblocks.  A pageblock header is                                      *)
(*   sph, next          superpage header; link of the list it is on        *)
(*   freed, unallocated first recycled slot; first never-used slot         *)
(*   object_size, num_free_objects, mem_pool_size                          *)
(*   owning_thread, garbage_head   the two halves of `together'            *)
(*   link[i]            the queue_node.next stored in slot i while the     *)
(*                      slot is on the freed list or the garbage stack     *)
(* mem_pool is the header address plus MemPoolOffset.  Slots are numbered  *)
(* from 1; 0 ends a list.                                                  *)
(***************************************************************************)
SmallRequest == 8000
\* A request of another class whose pageblocks have the same size.
OtherRequest == 7000
Classes == {malloc_compute_size_class(SmallRequest), malloc_compute_size_class(OtherRequest)}
SizeIndexes == {pageblock_size_index(compute_pageblock_size(c)) : c \in Classes}
MinObjectSize == reverse_size_class(CHOOSE c \in Classes : \A d \in Classes : c <= d)
SlotCap == (MAX_PAGEBLOCK_SIZE - MemPoolOffset) \div MinObjectSize
Slots == 1..SlotCap

PageblockAddrs ==
    {RegionBase(r) + k * MIN_PAGEBLOCK_SIZE :
        r \in Regions, k \in 0..(SUPERPAGE_SIZE \div MIN_PAGEBLOCK_SIZE - 1)}

NoGarbage == [next |-> 0, count |-> 0]
NoPageblock ==
    [sph |-> NULL, next |-> NULL, freed |-> 0, unallocated |-> 0,
     object_size |-> 0, num_free_objects |-> 0, mem_pool_size |-> 0,
     owning_thread |-> 0, garbage_head |-> NoGarbage,
     link |-> [i \in Slots |-> 0]]

mem_pool(pageblock) == pageblock + MemPoolOffset
slot_count(pb) == pb.mem_pool_size \div pb.object_size
\* ((unsigned long)object - (unsigned long)pageblock->mem_pool) / object_size + 1
slot_index(pageblock, pb, object) ==
    (object - mem_pool(pageblock)) \div pb.object_size + 1
together(pb) == <<pb.owning_thread, pb.garbage_head>>

\* A collection that forgets the count of the head it took.
garbage_collect_uncounted(pb) ==
    [pb EXCEPT !.garbage_head = NoGarbage, !.freed = pb.garbage_head.next]

\* garbage_collect: the garbage stack is taken whole (a swap with 0) and
\* becomes the freed list.
garbage_collect(pb) ==
    [pb EXCEPT !.garbage_head = NoGarbage,
               !.freed = pb.garbage_head.next,
               !.num_free_objects = @ + pb.garbage_head.count]

\* The first-use initialisation of get_free_pageblock (after supermap).
new_pageblock(sph, index, pageblock_size) ==
    [NoPageblock EXCEPT
        !.sph = sph, !.freed = 0, !.unallocated = 1,
        !.object_size = reverse_size_class(index),
        !.mem_pool_size = pageblock_size - MemPoolOffset,
        !.num_free_objects = (pageblock_size - MemPoolOffset)
                                 \div reverse_size_class(index)]

\* The geometry reset of get_free_pageblock for a reused pageblock.
reset_geometry(pb, index) ==
    IF pb.object_size # reverse_size_class(index)
    THEN [pb EXCEPT !.freed = 0, !.unallocated = 1,
                    !.object_size = reverse_size_class(index),
                    !.num_free_objects = pb.mem_pool_size \div reverse_size_class(index)]
    ELSE pb

\* malloc, "Reserve object from pageblock": the pointer and the header
\* afterwards.  unallocated is an unsigned short, object_size and
\* num_free_objects are ints.
reserve_object(pageblock, pb) ==
    LET taken ==
            IF pb.freed # 0
            THEN [pointer |-> mem_pool(pageblock) + (pb.freed - 1) * pb.object_size,
                  pb |-> [pb EXCEPT !.freed = pb.link[pb.freed],
                                    !.link[pb.freed] = 0]]
            ELSE [pointer |-> mem_pool(pageblock) + (pb.unallocated - 1) * pb.object_size,
                  pb |-> [pb EXCEPT !.unallocated =
                              IF pb.unallocated + 1 > slot_count(pb)
                              THEN 0 ELSE pb.unallocated + 1]]
    IN  [pointer |-> taken.pointer,
         pb |-> [taken.pb EXCEPT !.num_free_objects = @ - 1]]

\* A free that counts the object and does not link it.
local_free_push_lost(pageblock, pb, object) ==
    [pb EXCEPT !.num_free_objects = @ + 1]

\* local_free, the push on the freed list.
local_free_push(pageblock, pb, object) ==
    LET i == slot_index(pageblock, pb, object)
    IN  [pb EXCEPT !.link[i] = pb.freed, !.freed = i,
                   !.num_free_objects = @ + 1]

(***************************************************************************)
(* The metadata index (RADIX_TREE): one record per registered page.  A     *)
(* page without a record reads as zeroed memory.                           *)
(***************************************************************************)
PAGE_BITS == 12
PageOf(addr) == addr \div (2 ^ PAGE_BITS)
ZeroRecord == [object_type |-> OBJECT_SMALL, ptr |-> 0, size |-> 0]

\* The record radix_register writes: the pageblock shifted by PAGE_BITS,
\* the superpage header with log2 of the page count, or the byte size.
page_record(ptr, size, object_type) ==
    IF object_type = OBJECT_SMALL
    THEN [object_type |-> OBJECT_SMALL, ptr |-> ptr \div (2 ^ PAGE_BITS), size |-> 0]
    ELSE IF object_type = OBJECT_MEDIUM
    THEN [object_type |-> OBJECT_MEDIUM, ptr |-> ptr,
          size |-> quick_log2(size \div PAGE_SIZE)]
    ELSE [object_type |-> OBJECT_LARGE, ptr |-> 0, size |-> size]

radix_register(rdx, start, num_pages, ptr, size, object_type) ==
    LET pages == PageOf(start)..(PageOf(start) + num_pages - 1)
    IN  [p \in (DOMAIN rdx) \cup pages |->
            IF p \in pages THEN page_record(ptr, size, object_type) ELSE rdx[p]]

radix_extract(rdx, object) ==
    LET record == IF PageOf(object) \in DOMAIN rdx THEN rdx[PageOf(object)]
                  ELSE ZeroRecord
    IN  IF record.object_type = OBJECT_SMALL
        THEN [object_type |-> OBJECT_SMALL, ptr |-> record.ptr * (2 ^ PAGE_BITS), size |-> 0]
        ELSE IF record.object_type = OBJECT_MEDIUM
        THEN [object_type |-> OBJECT_MEDIUM, ptr |-> record.ptr,
              size |-> (2 ^ record.size) * PAGE_SIZE]
        ELSE [object_type |-> OBJECT_LARGE, ptr |-> 0, size |-> record.size]
(***************************************************************************)
(* Variables.                                                              *)
(***************************************************************************)
VARIABLES
    \* one request and its routing (SpecSize)
    request, slot, result,
    \* the build and the free chunk that one call of buddy_alloc meets
    \* (SpecOrder)
    arch, found,
    \* the number of chunks a caller allocates before it releases them,
    \* and the number it has allocated (SpecFill)
    want, made,
    \* the size realloc reads for the old object and the length of its
    \* memcpy (SpecRealloc)
    old_size, copied,
    \* the alignment memalign is called with, the object its malloc returns
    \* and the pointer it returns (SpecAlign); the number of elements calloc
    \* is called with (SpecCalloc)
    boundary, mem, pointer, nmemb,
    \* the class index whose representative size is classified (SpecClass)
    size_class,
    \* the superpage layer: super_lock and what it protects
    super_lock, superpage_list, superpages, sph_pageblocks, mapped, stray,
    \* the chunks handed out by supermap and not yet given back (SpecBuddy)
    chunks,
    \* one lock-free LIFO, its elements' links and its users (SpecLifo)
    queue_top, elem_next, lifo,
    \* the allocator proper (Spec, SpecRace): the thread id counter, the
    \* threads, the pageblock headers, the global pageblock lists, the
    \* metadata index, the objects the callers hold, and the calls each
    \* thread still has to make (SpecRace)
    global_id_counter, thr, pageblocks, global_partial_pageblocks,
    global_free_pageblocks, radix, live, script,
    \* the metadata index as radix_register builds it (SpecRadix): the word
    \* radix_root, the pages the page provider holds for nodes, each
    \* thread's position in radix_register, and the record last stored
    \* for each page
    radix_root, radix_nodes, registering, registered

orderVars == <<arch, found, want, made>>
copyVars == <<old_size, copied>>
apiVars == <<boundary, mem, pointer, nmemb, size_class>>
sizeVars == <<request, slot, result, orderVars, copyVars, apiVars>>
superVars == <<super_lock, superpage_list, superpages, sph_pageblocks, mapped, stray>>
buddyVars == <<chunks>>
lifoVars == <<queue_top, elem_next, lifo>>
heapVars == <<global_id_counter, thr, pageblocks, global_partial_pageblocks,
              global_free_pageblocks, radix, live, script>>
treeVars == <<radix_root, radix_nodes, registering, registered>>
vars == <<sizeVars, superVars, buddyVars, lifoVars, heapVars, treeVars>>
notSize == <<superVars, buddyVars, lifoVars, heapVars, treeVars>>
notBuddy == <<sizeVars, lifoVars, heapVars, treeVars>>
notLifo == <<sizeVars, superVars, buddyVars, heapVars, treeVars>>
notHeap == <<sizeVars, buddyVars, lifoVars, script, treeVars>>
\* what a call to malloc, to free or the end of a thread leaves alone
notCall == <<sizeVars, buddyVars, lifoVars, treeVars>>
notTree == <<sizeVars, superVars, buddyVars, lifoVars, heapVars>>

SuperState == [list |-> superpage_list, supers |-> superpages,
               quickie |-> sph_pageblocks, mapped |-> mapped, stray |-> stray]

SetSuperState(B) ==
    /\ superpage_list' = B.list
    /\ superpages' = B.supers
    /\ sph_pageblocks' = B.quickie
    /\ mapped' = B.mapped
    /\ stray' = B.stray

InitSuper ==
    /\ super_lock = 0
    /\ superpage_list = <<>>
    /\ superpages = [h \in SphIds |-> NoSuper]
    /\ sph_pageblocks = [freed |-> <<>>, unallocated |-> 0]
    /\ mapped = [r \in Regions |-> 0]
    /\ stray = 0

IdleOrder == arch = 0 /\ found = 0 /\ want = 0 /\ made = 0
IdleCopy == old_size = 0 /\ copied = 0
IdleApi == boundary = 0 /\ mem = NULL /\ pointer = NULL /\ nmemb = 0 /\ size_class = 0
IdleSize == request = 0 /\ slot = 1 /\ result = Pending /\ IdleOrder /\ IdleCopy /\ IdleApi
IdleBuddy == chunks = {}

LifoThreads == 2
LifoElems == 2
LThreads == 1..LifoThreads
Elems == 1..LifoElems

LifoIdle == [pc |-> "idle", head |-> NULL, next |-> NULL, elem |-> NULL, held |-> {}]

IdleLifo ==
    /\ queue_top = NULL
    /\ elem_next = [e \in Elems |-> NULL]
    /\ lifo = [t \in LThreads |-> LifoIdle]

(***************************************************************************)
(* Threads.  A thread is at one of these places (pc):                      *)
(*   unborn, idle, dead, crashed                                           *)
(*   pop_read, pop_cas      lf_lifo_dequeue in remove_global_pageblocks     *)
(*   map_lock, map_body     supermap: spin_lock; the critical section       *)
(*   unmap_lock, unmap_body superunmap: spin_lock; the critical section     *)
(*   adopt                  adopt_pageblock's compare_and_swap32            *)
(*   remote_read, remote_cas  the loop of remote_free                       *)
(*   fin, fin_read, fin_cas streamflow_thread_finalize                      *)
(* Its record also holds thread_id, local_heap (heap: the active list of   *)
(* each class), local_inactive_pageblocks (inactive: the queues, count:   *)
(* their count fields) and the locals of the call in progress; n counts    *)
(* the calls to malloc that have returned.                                 *)
(***************************************************************************)
MaxThreads == 4
Thr == 1..MaxThreads
\* The locals of a retry loop: an owner id, a garbage head, a next pointer.
NoSnap == [id |-> 0, head |-> NoGarbage, next |-> NULL]
NoArg == [sph |-> NULL, start |-> NULL, length |-> 0]
NoThread ==
    [pc |-> "unborn", id |-> 0,
     heap |-> [c \in Classes |-> <<>>],
     inactive |-> [s \in SizeIndexes |-> <<>>],
     count |-> [s \in SizeIndexes |-> 0],
     n |-> 0, object |-> NULL, pageblock |-> NULL, index |-> 0, kind |-> OBJECT_SMALL,
     queue |-> "partial",
     snap |-> NoSnap, todo |-> <<>>, after |-> "idle", arg |-> NoArg]

IdleHeap ==
    /\ global_id_counter = 0
    /\ thr = [t \in Thr |-> NoThread]
    /\ pageblocks = [a \in PageblockAddrs |-> NoPageblock]
    /\ global_partial_pageblocks = [c \in Classes |-> NULL]
    /\ global_free_pageblocks = [s \in SizeIndexes |-> [top |-> NULL, count |-> 0]]
    /\ radix = <<>>
    /\ live = {}
    /\ script = [t \in Thr |-> <<>>]

(***************************************************************************)
(* The radix tree.  A node is one range obtained from page_alloc: an       *)
(* interior node is its array `prefixes', a leaf its array `values'.  The  *)
(* model keeps RADIX_DEPTH = 3 and gives every level one bit, so a page    *)
(* number has RadixBits bits.                                              *)
(***************************************************************************)
RADIX_INTERIOR_BITS == 1
RADIX_LEAF_BITS == 1
RADIX_INTERIOR_SIZE == 2 ^ RADIX_INTERIOR_BITS
RADIX_LEAF_SIZE == 2 ^ RADIX_LEAF_BITS
RadixBits == 2 * RADIX_INTERIOR_BITS + RADIX_LEAF_BITS
RadixPages == 0..(2 ^ RadixBits - 1)
RadixThreads == 2
RThreads == 1..RadixThreads
\* The addresses page_alloc can return for a node.
MaxNodes == 9
NodeAddrs == 1..MaxNodes
\* A range the provider does not hold, and one it has just handed out
\* (mmap of anonymous memory: every word zero).
NoNode == [mapped |-> FALSE, prefixes |-> [k \in 0..(RADIX_INTERIOR_SIZE - 1) |-> NULL],
           values |-> [k \in 0..(RADIX_LEAF_SIZE - 1) |-> ZeroRecord]]
FreshNode == [NoNode EXCEPT !.mapped = TRUE]
NoRegister == [pc |-> "idle", start |-> 0, num_pages |-> 0, ptr |-> NULL, i |-> 0,
               page |-> 0, temp |-> NULL, n |-> 0, lost |-> 0]

IdleTree ==
    /\ radix_root = NULL
    /\ radix_nodes = [a \in NodeAddrs |-> NoNode]
    /\ registering = [t \in RThreads |-> NoRegister]
    /\ registered = [p \in RadixPages |-> ZeroRecord]
(***************************************************************************)
(* SpecSize: one call malloc(request); the object is taken from slot       *)
(* number `slot' when the request is small.                                *)
(***************************************************************************)
MaxRequest == 17000
MaxSlot == 3
Requests == (0..MaxRequest)
            \cup {SUPERPAGE_SIZE - 1, SUPERPAGE_SIZE, SUPERPAGE_SIZE + 1,
                  2 * SUPERPAGE_SIZE, 2 * SUPERPAGE_SIZE + 1}

InitSize ==
    /\ request \in Requests
    /\ slot \in 1..MaxSlot
    /\ result = Pending
    /\ IdleOrder /\ IdleCopy /\ IdleApi
    /\ InitSuper /\ IdleTree /\ IdleBuddy /\ IdleLifo /\ IdleHeap

Malloc ==
    /\ result = Pending
    /\ result' = malloc_route(request, slot)
    /\ UNCHANGED <<request, slot, orderVars, copyVars, apiVars, notSize>>

NextSize == Malloc
SpecSize == InitSize /\ [][NextSize]_vars

(***************************************************************************)
(* C6: the usable size of a returned object is at least the requested      *)
(* size: the representative size of the request's class for a small        *)
(* request, the rounded chunk size for a medium one, the recorded size     *)
(* for a large one.                                                        *)
(***************************************************************************)
C6_UsableCoversRequest ==
    result.kind \in {OBJECT_SMALL, OBJECT_MEDIUM, OBJECT_LARGE}
        => result.usable >= request

C6_Witness ==
    /\ result.kind = OBJECT_SMALL
    /\ request = MAX_OBJECT_SIZE
    /\ result.usable = reverse_size_class(malloc_compute_size_class(request))
    /\ result.usable >= request

(***************************************************************************)
(* C7: every returned pointer is aligned to at least sizeof(void* ): the   *)
(* slot offset of a small object is a multiple of it for every class and   *)
(* slot number, and a medium or large object starts on a page boundary.    *)
(***************************************************************************)
C7_PointerAligned ==
    /\ result.kind = OBJECT_SMALL => result.offset % HEADER_SIZE = 0
    /\ result.kind \in {OBJECT_MEDIUM, OBJECT_LARGE} => result.offset % PAGE_SIZE = 0

(***************************************************************************)
(* SpecBuddy: one thread calling supermap(size) for the power-of-two       *)
(* sizes, and superunmap on the chunks it holds.                           *)
(***************************************************************************)
MaxChunks == 3
ChunkSizes == {(2 ^ o) * PAGE_SIZE : o \in Orders}

InitBuddy == InitSuper /\ IdleTree /\ IdleSize /\ IdleLifo /\ IdleHeap /\ chunks = {}

\* supermap(size): spin_lock, critical section, write of the header
\* pointer into the chunk, spin_unlock.
BuddyMap ==
    \E size \in ChunkSizes :
        /\ Cardinality(chunks) < MaxChunks
        /\ super_lock = 0
        /\ can_supermap(SuperState, size)
        /\ LET m == supermap_locked(SuperState, size)
           IN  /\ SetSuperState(m.B)
               /\ chunks' = chunks \cup {[start |-> m.pages, length |-> size, sph |-> m.sph]}
        /\ UNCHANGED <<super_lock, notBuddy>>

\* superunmap(start, length) on a chunk obtained from supermap.
BuddyUnmap ==
    \E c \in chunks :
        /\ super_lock = 0
        /\ SetSuperState(superunmap_locked(SuperState, c.sph, c.start, c.length))
        /\ chunks' = chunks \ {c}
        /\ UNCHANGED <<super_lock, notBuddy>>

NextBuddy == BuddyMap \/ BuddyUnmap
SpecBuddy == InitBuddy /\ [][NextBuddy]_vars

\* The pages (numbered within the superpage) of a chunk of `length' bytes
\* at `start'.
ChunkPages(super, start, length) ==
    LET first == (start - super.page_pool) \div PAGE_SIZE
    IN  first..(first + length \div PAGE_SIZE - 1)

\* The number of allocated chunks of superpage h that contain page p.
AllocatedCover(h, p) ==
    Cardinality({c \in chunks : c.sph = h
                    /\ p \in ChunkPages(superpages[h], c.start, c.length)})

\* The entries <<order, position>> of the free lists of superpage h.
FreeEntries(h) ==
    UNION {{<<o, k>> : k \in 1..Len(superpages[h].free_list[o])} : o \in Orders}

\* The number of free-list entries of superpage h that contain page p.
FreeCover(h, p) ==
    Cardinality({e \in FreeEntries(h) :
                    p \in ChunkPages(superpages[h],
                                     superpages[h].free_list[e[1]][e[2]],
                                     (2 ^ e[1]) * PAGE_SIZE)})

(***************************************************************************)
(* C8: within every superpage each page belongs to exactly one allocated   *)
(* chunk or to exactly one chunk of a free list, and the chunk of a free   *)
(* list of order o is a naturally aligned run of 2^o pages; no chunk is    *)
(* on a free list twice.                                                   *)
(***************************************************************************)
C8_BuddyPartition ==
    \A i \in 1..Len(superpage_list) :
        LET h == superpage_list[i]
            s == superpages[h]
        IN  /\ \A p \in 0..(PAGES_PER_SUPERPAGE - 1) :
                    AllocatedCover(h, p) + FreeCover(h, p) = 1
            /\ \A o \in Orders : \A k \in 1..Len(s.free_list[o]) :
                    /\ (s.free_list[o][k] - s.page_pool) % ((2 ^ o) * PAGE_SIZE) = 0
                    /\ s.free_list[o][k] >= s.page_pool
                    /\ s.free_list[o][k] + (2 ^ o) * PAGE_SIZE
                           <= s.page_pool + SUPERPAGE_SIZE

\* A superpage split down to single pages and partly given back: free
\* chunks on two orders next to allocated ones.
C8_Witness ==
    \E i \in 1..Len(superpage_list) :
        LET s == superpages[superpage_list[i]]
        IN  /\ s.free_list[0] # <<>>
            /\ s.free_list[1] # <<>>
            /\ Cardinality({c \in chunks : c.sph = superpage_list[i]}) >= 2
            /\ \A p \in 0..(PAGES_PER_SUPERPAGE - 1) :
                   AllocatedCover(superpage_list[i], p)
                       + FreeCover(superpage_list[i], p) = 1

(***************************************************************************)
(* C9: a superpage is mapped and on superpage_list exactly while a chunk   *)
(* allocated from it is outstanding, and no page_free is issued on an      *)
(* address range that is not mapped (a superpage is unmapped at most       *)
(* once).                                                                  *)
(***************************************************************************)
C9_UnmapWhenEmpty ==
    /\ \A c \in chunks :
          /\ c.sph \in SeqSet(superpage_list)
          /\ mapped[RegionOf(c.start)] = SUPERPAGE_SIZE
          /\ superpages[c.sph].page_pool = RegionBase(RegionOf(c.start))
    /\ \A i \in 1..Len(superpage_list) :
          /\ \E c \in chunks : c.sph = superpage_list[i]
          /\ mapped[RegionOf(superpages[superpage_list[i]].page_pool)] = SUPERPAGE_SIZE
    /\ \A r \in Regions : mapped[r] # 0 =>
          \E i \in 1..Len(superpage_list) :
              superpages[superpage_list[i]].page_pool = RegionBase(r)
    /\ stray = 0

\* A superpage has been unmapped (its header is on the quickie free list)
\* after its chunks came back, while another one is still in use.
C9_Witness ==
    /\ sph_pageblocks.freed # <<>>
    /\ chunks # {}
    /\ Len(superpage_list) = 1
    /\ Cardinality({r \in Regions : mapped[r] # 0}) = 1

(***************************************************************************)
(* SpecLifo: threads pushing and popping the elements of one lock-free     *)
(* LIFO, one shared-memory access per step.  A thread pushes only          *)
(* elements it holds, and holds the elements it popped.                    *)
(***************************************************************************)
InitLifo ==
    /\ queue_top = NULL
    /\ elem_next = [e \in Elems |-> NULL]
    /\ lifo = [t \in LThreads |-> IF t = 1 THEN [LifoIdle EXCEPT !.held = Elems]
                                   ELSE LifoIdle]
    /\ InitSuper /\ IdleTree /\ IdleSize /\ IdleBuddy /\ IdleHeap

\* lf_lifo_enqueue: old_top.top = queue->both.top; element->next = old_top.top.
EnqRead(t) ==
    \E e \in lifo[t].held :
        /\ lifo[t].pc = "idle"
        /\ lifo' = [lifo EXCEPT ![t].pc = "enq", ![t].elem = e,
                                ![t].head = queue_top, ![t].held = @ \ {e}]
        /\ elem_next' = [elem_next EXCEPT ![e] = queue_top]
        /\ UNCHANGED <<queue_top, notLifo>>

\* lf_lifo_enqueue: the compare-and-swap; a failure repeats the loop.
EnqCAS(t) ==
    /\ lifo[t].pc = "enq"
    /\ LET r == lf_lifo_enqueue_cas(queue_top, lifo[t].head, lifo[t].elem)
       IN  /\ queue_top' = r.new
           /\ IF r.ok
              THEN /\ lifo' = [lifo EXCEPT ![t].pc = "idle", ![t].elem = NULL,
                                           ![t].head = NULL]
                   /\ UNCHANGED elem_next
              ELSE /\ lifo' = [lifo EXCEPT ![t].head = queue_top]
                   /\ elem_next' = [elem_next EXCEPT ![lifo[t].elem] = queue_top]
    /\ UNCHANGED notLifo

\* lf_lifo_dequeue: head.top = queue->both.top; return NULL when it is 0.
DeqReadTop(t) ==
    /\ lifo[t].pc = "idle"
    /\ queue_top # NULL
    /\ lifo' = [lifo EXCEPT ![t].pc = "deq_next", ![t].head = queue_top]
    /\ UNCHANGED <<queue_top, elem_next, notLifo>>

\* lf_lifo_dequeue: next.top = head.top->next.
DeqReadNext(t) ==
    /\ lifo[t].pc = "deq_next"
    /\ lifo' = [lifo EXCEPT ![t].pc = "deq_cas", ![t].next = elem_next[lifo[t].head]]
    /\ UNCHANGED <<queue_top, elem_next, notLifo>>

\* lf_lifo_dequeue: the compare-and-swap; success returns head.top.
DeqCAS(t) ==
    /\ lifo[t].pc = "deq_cas"
    /\ LET r == lf_lifo_dequeue_cas(queue_top, [head |-> lifo[t].head,
                                                 next |-> lifo[t].next])
       IN  /\ queue_top' = r.new
           /\ lifo' = [lifo EXCEPT ![t].pc = "idle", ![t].head = NULL, ![t].next = NULL,
                                   ![t].held = IF r.ok THEN @ \cup {lifo[t].head} ELSE @]
    /\ UNCHANGED <<elem_next, notLifo>>

NextLifo ==
    \E t \in LThreads :
        EnqRead(t) \/ EnqCAS(t) \/ DeqReadTop(t) \/ DeqReadNext(t) \/ DeqCAS(t)
SpecLifo == InitLifo /\ [][NextLifo]_vars

\* The number of places an element is in: threads that hold it or are
\* pushing it, and the list.
Holders(e) ==
    Cardinality({t \in LThreads : e \in lifo[t].held \/ lifo[t].elem = e})
OnList(e) == IF e \in Linked(queue_top, elem_next, LifoElems + 1) THEN 1 ELSE 0

(***************************************************************************)
(* C4: under any interleaving of pushes and pops, a pop whose snapshot of  *)
(* the head is stale never succeeds, so every pushed element is returned   *)
(* by exactly one pop: each element is either on the list (once) or held   *)
(* by exactly one thread, never both, never neither.                       *)
(***************************************************************************)
C4_PoppedExactlyOnce ==
    /\ \A e \in Elems : Holders(e) + OnList(e) = 1
    /\ LinkedLen(queue_top, elem_next, LifoElems + 1) <= LifoElems

(***************************************************************************)
(* The allocator proper.  Operators that build the next value of a thread  *)
(* record T and of the pageblock headers pbs.                              *)
(***************************************************************************)
\* The next fields of the members of an active list after a list
\* operation (double_list_insert_front / rotate_back / remove keep them
\* equal to the successor in the list; a removed node keeps its own).
FirstIndex(list, a) == CHOOSE i \in 1..Len(list) : list[i] = a /\ \A j \in 1..(i - 1) : list[j] # a
Relink(pbs, list) ==
    [a \in DOMAIN pbs |->
        IF a \in SeqSet(list)
        THEN [pbs[a] EXCEPT !.next = IF FirstIndex(list, a) < Len(list)
                                     THEN list[FirstIndex(list, a) + 1] ELSE NULL]
        ELSE pbs[a]]

\* The record of a thread whose call has returned.
Done(T) ==
    [T EXCEPT !.pc = "idle", !.object = NULL, !.pageblock = NULL, !.index = 0,
              !.kind = OBJECT_SMALL, !.snap = NoSnap, !.after = "idle", !.arg = NoArg]

\* The record of a thread that goes on to `pc' after its current step.
Resume(T, pc) ==
    IF pc = "idle" THEN Done(T)
    ELSE [T EXCEPT !.pc = pc, !.object = NULL, !.snap = NoSnap,
                   !.after = "idle", !.arg = NoArg]

\* superunmap(start, length) up to its spin_lock: super = start->sph.
GoSuperunmap(T, sph, start, length, after) ==
    [T EXCEPT !.pc = "unmap_lock", !.after = after, !.object = NULL, !.snap = NoSnap,
              !.arg = [sph |-> sph, start |-> start, length |-> length]]

\* insert_global_partial_pageblocks: lf_lifo_enqueue on the class's list
\* (the count of the partial list is never read and is left out).
insert_global_partial_pageblocks(pbs, gp, pageblock, class_index) ==
    [pbs |-> [pbs EXCEPT ![pageblock].next = gp[class_index]],
     gp |-> [gp EXCEPT ![class_index] = pageblock]]

\* insert_global_free_pageblocks: superunmap when the global free list
\* holds MAX_GLOBAL_INACTIVE pageblocks, else a push on it.  `T' goes to
\* `after' when the call is over.
insert_global_free_pageblocks(T, pbs, gf, pageblock, after) ==
    LET pb == pbs[pageblock]
        size_index == pageblock_size_index(pb.mem_pool_size + MemPoolOffset)
    IN  IF gf[size_index].count >= MAX_GLOBAL_INACTIVE
        THEN [T |-> GoSuperunmap(T, pb.sph, pageblock,
                                 pb.mem_pool_size + CACHE_LINE_SIZE, after),
              pbs |-> pbs, gf |-> gf]
        ELSE [T |-> Resume(T, after),
              pbs |-> [pbs EXCEPT ![pageblock].next = gf[size_index].top],
              gf |-> [gf EXCEPT ![size_index] =
                         [top |-> pageblock, count |-> gf[size_index].count + 1]]]

\* A cache that takes every pageblock.
inactive_has_room_always(count) == TRUE

\* local_free: local_inactive_pageblocks[size_index].count < MAX_PRIVATE_INACTIVE.
inactive_has_room(count) == count < MAX_PRIVATE_INACTIVE

\* local_free(object, pageblock, my_heap) with my_heap the list of class
\* T.index; the thread goes to `after' when the call is over.
local_free(T, pbs, gf, pageblock, object, after) ==
    LET pb == local_free_push(pageblock, pbs[pageblock], object)
        pbs1 == [pbs EXCEPT ![pageblock] = pb]
        list == T.heap[T.index]
        size_index == pageblock_size_index(pb.mem_pool_size + MemPoolOffset)
    IN  IF pb.num_free_objects = slot_count(pb)
        THEN LET list2 == double_list_remove(pageblock, list)
                 T2 == [T EXCEPT !.heap[T.index] = list2]
                 pbs2 == Relink(pbs1, list2)
             IN  IF inactive_has_room(T.count[size_index])
                 THEN [T |-> Resume([T2 EXCEPT !.inactive[size_index] = <<pageblock>> \o @,
                                               !.count[size_index] = @ + 1],
                                    after),
                       pbs |-> [pbs2 EXCEPT ![pageblock].next =
                                   IF T.inactive[size_index] = <<>> THEN NULL
                                   ELSE Head(T.inactive[size_index])],
                       gf |-> gf]
                 ELSE insert_global_free_pageblocks(T2, pbs2, gf, pageblock, after)
        ELSE IF list # <<>> /\ pageblock # Head(list) /\ pb.num_free_objects > 1
        THEN LET list2 == double_list_insert_front(pageblock,
                              double_list_remove(pageblock, list))
             IN  [T |-> Resume([T EXCEPT !.heap[T.index] = list2], after),
                  pbs |-> Relink(pbs1, list2), gf |-> gf]
        ELSE [T |-> Resume(T, after), pbs |-> pbs1, gf |-> gf]

\* The pointer a caller holds: its address, its usable size, the path
\* that produced it, and the call that returned it (thread, call number).
Pointer(addr, usable, kind, t, seq) ==
    [addr |-> addr, usable |-> usable, kind |-> kind, by |-> t, seq |-> seq]

\* The end of malloc for a small request: the object is reserved from
\* `pageblock', which is the head of the active list of class T.index.
ReturnObject(t, T, pbs, pageblock) ==
    LET r == reserve_object(pageblock, pbs[pageblock])
        list == IF r.pb.num_free_objects = 0
                THEN double_list_rotate_back(T.heap[T.index])
                ELSE T.heap[T.index]
    IN  /\ pageblocks' = Relink([pbs EXCEPT ![pageblock] = r.pb], list)
        /\ thr' = [thr EXCEPT ![t] = Done([T EXCEPT !.heap[T.index] = list,
                                                     !.n = @ + 1])]
        /\ live' = live \cup {Pointer(r.pointer, r.pb.object_size, OBJECT_SMALL,
                                      t, T.n + 1)}

\* The end of get_free_pageblock for a pageblock taken from the inactive
\* cache or from a global list, and the rest of malloc.
ClaimPageblock(t, T, pbs, pageblock) ==
    LET pb == [reset_geometry(pbs[pageblock], T.index) EXCEPT !.owning_thread = T.id]
        T1 == [T EXCEPT !.heap[T.index] = double_list_insert_front(pageblock, @)]
    IN  ReturnObject(t, T1, [pbs EXCEPT ![pageblock] = pb], pageblock)

(***************************************************************************)
(* Steps.  One step is the code between two accesses to shared memory      *)
(* that another thread can interleave with; a failed iteration of a spin   *)
(* loop is a stuttering step.  A fault (an access through a pointer that   *)
(* is not a pageblock of a mapped superpage, or page_alloc's exit) stops   *)
(* the process: no thread takes a step once one is "crashed".              *)
(***************************************************************************)
Running == \A u \in Thr : thr[u].pc # "crashed"
IsPageblock(a, pbs) == a \in PageblockAddrs /\ pbs[a].object_size # 0
Crash(t) == thr' = [thr EXCEPT ![t].pc = "crashed"]

\* The calls whose page_alloc is still to come.
InFlight == {u \in Thr : thr[u].pc \in {"pop_read", "pop_cas", "map_lock", "map_body"}}

\* streamflow_thread_init (override.c): thread_id = atmc_fetch_and_add.
ThreadStart(t) ==
    /\ Running /\ thr[t].pc = "unborn"
    /\ LET r == atmc_fetch_and_add(global_id_counter, 1)
       IN  /\ global_id_counter' = r.new
           /\ thr' = [thr EXCEPT ![t] = [NoThread EXCEPT !.pc = "idle", !.id = r.ret]]
    /\ UNCHANGED <<pageblocks, global_partial_pageblocks, global_free_pageblocks,
                   radix, live, superVars, notCall>>

\* A test that collects the garbage of every head pageblock.
needs_collection_always(pb) == TRUE

\* malloc: "Do we have a pageblock that needs garbage collection?"
needs_collection(pb) == pb.num_free_objects = 0

\* malloc(requested_size) up to its first wait: a large object is mapped
\* at once; a medium one goes to supermap; a small one is served from
\* the head of the active list (after garbage_collect), else from the
\* inactive cache, else goes to remove_global_pageblocks.
MallocCall(t, requested_size) ==
    LET T == thr[t]
        route == malloc_route(requested_size, 1)
    IN
    /\ Running /\ T.pc = "idle"
    /\ Cardinality(FreeRegions(mapped)) > Cardinality(InFlight)
    /\ IF route.kind = OBJECT_LARGE
       THEN /\ mapped' = page_alloc_map(mapped, requested_size)
            /\ radix' = radix_register(radix, page_alloc_addr(mapped), 1, NULL,
                                       requested_size, OBJECT_LARGE)
            /\ live' = live \cup {Pointer(page_alloc_addr(mapped), requested_size,
                                          OBJECT_LARGE, t, T.n + 1)}
            /\ thr' = [thr EXCEPT ![t] = Done([T EXCEPT !.n = @ + 1])]
            /\ UNCHANGED pageblocks
       ELSE IF route.kind = OBJECT_MEDIUM
       THEN /\ thr' = [thr EXCEPT ![t] =
                          [T EXCEPT !.pc = "map_lock", !.kind = OBJECT_MEDIUM,
                                    !.arg = [NoArg EXCEPT !.length = route.usable]]]
            /\ UNCHANGED <<pageblocks, radix, live, mapped>>
       ELSE LET index == route.index
                list == T.heap[index]
                head == IF list = <<>> THEN NULL ELSE Head(list)
                size_index == pageblock_size_index(compute_pageblock_size(index))
            IN  /\ UNCHANGED <<radix, mapped>>
                /\ IF head # NULL /\ ~IsPageblock(head, pageblocks)
                   THEN Crash(t) /\ UNCHANGED <<pageblocks, live>>
                   ELSE LET collect == head # NULL /\ needs_collection(pageblocks[head])
                            pb == IF collect THEN garbage_collect(pageblocks[head])
                                  ELSE pageblocks[head]
                            rotate == collect /\ pb.num_free_objects = 0
                            list1 == IF rotate THEN double_list_rotate_back(list) ELSE list
                            pbs1 == IF head = NULL THEN pageblocks
                                    ELSE Relink([pageblocks EXCEPT ![head] = pb], list1)
                            T1 == [T EXCEPT !.index = index, !.heap[index] = list1]
                        IN  IF head # NULL /\ pb.num_free_objects # 0
                            THEN ReturnObject(t, T1, pbs1, head)
                            ELSE IF T.inactive[size_index] # <<>>
                            THEN ClaimPageblock(t,
                                     [T1 EXCEPT !.inactive[size_index] = Tail(@),
                                                !.count[size_index] = @ - 1],
                                     pbs1, Head(T.inactive[size_index]))
                            ELSE /\ thr' = [thr EXCEPT ![t] =
                                               [T1 EXCEPT !.pc = "pop_read",
                                                          !.queue = "partial"]]
                                 /\ pageblocks' = pbs1
                                 /\ UNCHANGED live
    /\ UNCHANGED <<global_id_counter, global_partial_pageblocks, global_free_pageblocks,
                   super_lock, superpage_list, superpages, sph_pageblocks, stray,
                   notCall>>

\* remove_global_pageblocks, the reads of lf_lifo_dequeue: the top of the
\* partial list of the class, then of the free list of the pageblock
\* size, and the next field of the element found.  With both lists empty
\* get_free_pageblock goes on to supermap.
RemoveGlobalRead(t) ==
    LET T == thr[t]
        size_index == pageblock_size_index(compute_pageblock_size(T.index))
        partial == IF T.queue = "partial" THEN global_partial_pageblocks[T.index]
                   ELSE NULL
        queue == IF partial # NULL THEN "partial" ELSE "free"
        top == IF partial # NULL THEN partial ELSE global_free_pageblocks[size_index].top
    IN
    /\ Running /\ T.pc = "pop_read"
    /\ IF top = NULL
       THEN thr' = [thr EXCEPT ![t] = [T EXCEPT !.pc = "map_lock", !.kind = OBJECT_SMALL,
                                                !.queue = "partial"]]
       ELSE IF mapped[RegionOf(top)] = 0
       THEN Crash(t)
       ELSE LET r == lf_lifo_dequeue_read(top, [a \in PageblockAddrs |-> pageblocks[a].next])
            IN  thr' = [thr EXCEPT ![t] =
                           [T EXCEPT !.pc = "pop_cas", !.queue = queue,
                                     !.pageblock = r.head,
                                     !.snap = [NoSnap EXCEPT !.next = r.next]]]
    /\ UNCHANGED <<global_id_counter, pageblocks, global_partial_pageblocks,
                   global_free_pageblocks, radix, live, superVars, notHeap>>

\* lf_lifo_dequeue's compare_and_swap64 and, when it succeeds, the rest of
\* get_free_pageblock and of malloc.
RemoveGlobalCAS(t) ==
    LET T == thr[t]
        size_index == pageblock_size_index(compute_pageblock_size(T.index))
        top == IF T.queue = "partial" THEN global_partial_pageblocks[T.index]
               ELSE global_free_pageblocks[size_index].top
        r == lf_lifo_dequeue_cas(top, [head |-> T.pageblock, next |-> T.snap.next])
    IN
    /\ Running /\ T.pc = "pop_cas"
    /\ IF ~r.ok
       THEN /\ thr' = [thr EXCEPT ![t] = [T EXCEPT !.pc = "pop_read", !.pageblock = NULL,
                                                   !.snap = NoSnap]]
            /\ UNCHANGED <<pageblocks, global_partial_pageblocks,
                           global_free_pageblocks, live>>
       ELSE /\ IF T.queue = "partial"
               THEN /\ global_partial_pageblocks' =
                           [global_partial_pageblocks EXCEPT ![T.index] = r.new]
                    /\ UNCHANGED global_free_pageblocks
               ELSE /\ global_free_pageblocks' =
                           [global_free_pageblocks EXCEPT ![size_index] =
                               [top |-> r.new, count |-> @.count - 1]]
                    /\ UNCHANGED global_partial_pageblocks
            /\ IF ~IsPageblock(T.pageblock, pageblocks)
               THEN Crash(t) /\ UNCHANGED <<pageblocks, live>>
               ELSE LET pb == pageblocks[T.pageblock]
                        pbs1 == IF pb.num_free_objects = 0
                                THEN [pageblocks EXCEPT ![T.pageblock] = garbage_collect(pb)]
                                ELSE pageblocks
                    IN  ClaimPageblock(t, [T EXCEPT !.queue = "partial"], pbs1, T.pageblock)
    /\ UNCHANGED <<global_id_counter, radix, superVars, notHeap>>

\* supermap: spin_lock(&super_lock).
SupermapLock(t) ==
    /\ Running /\ thr[t].pc = "map_lock"
    /\ spin_lock_acquires(super_lock)
    /\ super_lock' = spin_lock_new(super_lock)
    /\ thr' = [thr EXCEPT ![t].pc = "map_body"]
    /\ UNCHANGED <<superpage_list, superpages, sph_pageblocks, mapped, stray,
                   global_id_counter, pageblocks, global_partial_pageblocks,
                   global_free_pageblocks, radix, live, notHeap>>

\* supermap's critical section and what follows the spin_unlock: for a
\* small request register_pages, the first-use initialisation and the
\* rest of malloc; for a medium request register_pages of the first page.
SupermapBody(t) ==
    LET T == thr[t] IN
    \E size \in {IF T.kind = OBJECT_MEDIUM THEN T.arg.length
                 ELSE compute_pageblock_size(T.index)} :
    /\ Running /\ T.pc = "map_body"
    /\ super_lock' = spin_unlock_new
    /\ IF ~can_supermap(SuperState, size)
       THEN /\ Crash(t)
            /\ UNCHANGED <<superpage_list, superpages, sph_pageblocks, mapped, stray,
                           pageblocks, radix, live>>
       ELSE \E r \in {supermap_locked(SuperState, size)} :
                /\ SetSuperState(r.B)
                /\ IF T.kind = OBJECT_MEDIUM
                   THEN /\ pageblocks' = [pageblocks EXCEPT ![r.pages] =
                                             [NoPageblock EXCEPT !.sph = r.sph]]
                        /\ radix' = radix_register(radix, r.pages, 1, r.sph, size,
                                                   OBJECT_MEDIUM)
                        /\ live' = live \cup {Pointer(r.pages, size, OBJECT_MEDIUM,
                                                      t, T.n + 1)}
                        /\ thr' = [thr EXCEPT ![t] = Done([T EXCEPT !.n = @ + 1])]
                   ELSE /\ radix' = radix_register(radix, r.pages, size \div PAGE_SIZE,
                                                   r.pages, 0, OBJECT_SMALL)
                        /\ \E pbs \in {[pageblocks EXCEPT ![r.pages] =
                                           new_pageblock(r.sph, T.index, size)]} :
                              ClaimPageblock(t, T, pbs, r.pages)
    /\ UNCHANGED <<global_id_counter, global_partial_pageblocks,
                   global_free_pageblocks, notHeap>>

\* The outcome of a local_free as the next state.
SetLocalFree(t, r) ==
    /\ thr' = [thr EXCEPT ![t] = r.T]
    /\ pageblocks' = r.pbs
    /\ global_free_pageblocks' = r.gf

\* free(object) up to its first wait; object_extract reads the metadata
\* index.
FreeObject(t, p) ==
    LET T == thr[t]
        rec == radix_extract(radix, p.addr)
    IN
    /\ Running /\ T.pc = "idle" /\ p \in live
    /\ IF rec.object_type = OBJECT_LARGE
       THEN /\ mapped' = page_free_map(mapped, p.addr, rec.size)
            /\ stray' = IF page_free_exact(mapped, p.addr, rec.size)
                         THEN stray ELSE stray + 1
            /\ thr' = [thr EXCEPT ![t] = Done(T)]
            /\ UNCHANGED <<pageblocks, global_free_pageblocks>>
       ELSE IF rec.object_type = OBJECT_MEDIUM
       THEN /\ IF p.addr \in PageblockAddrs /\ mapped[RegionOf(p.addr)] # 0
               THEN /\ pageblocks' = [pageblocks EXCEPT ![p.addr].sph = rec.ptr]
                    /\ thr' = [thr EXCEPT ![t] =
                                  GoSuperunmap(T, rec.ptr, p.addr, rec.size, "idle")]
               ELSE Crash(t) /\ UNCHANGED pageblocks
            /\ UNCHANGED <<mapped, stray, global_free_pageblocks>>
       ELSE /\ UNCHANGED <<mapped, stray>>
            /\ IF ~IsPageblock(rec.ptr, pageblocks)
               THEN Crash(t) /\ UNCHANGED <<pageblocks, global_free_pageblocks>>
               ELSE LET pb == pageblocks[rec.ptr]
                        T1 == [T EXCEPT !.index = free_compute_size_class(pb.object_size),
                                        !.object = p.addr, !.pageblock = rec.ptr]
                    IN  IF pb.owning_thread = T.id
                        THEN SetLocalFree(t, local_free(T1, pageblocks,
                                 global_free_pageblocks, rec.ptr, p.addr, "idle"))
                        ELSE /\ thr' = [thr EXCEPT ![t] =
                                    [T1 EXCEPT !.pc = IF pb.owning_thread = ORPHAN
                                                      THEN "adopt" ELSE "remote_read"]]
                             /\ UNCHANGED <<pageblocks, global_free_pageblocks>>
    /\ UNCHANGED <<global_id_counter, global_partial_pageblocks, radix,
                   super_lock, superpage_list, superpages, sph_pageblocks, notCall>>

\* free(object) by the caller that holds the pointer, who gives it up.
FreeCall(t, p) == FreeObject(t, p) /\ live' = live \ {p}

\* free(object) through an outdated copy of the address of p: the holder
\* of p keeps it.
StaleFreeCall(t, p) == FreeObject(t, p) /\ UNCHANGED live

\* adopt_pageblock: compare_and_swap32(&pageblock->owning_thread, ORPHAN,
\* thread_id); the winner puts the pageblock on its active list and frees
\* locally, a loser goes to remote_free.
AdoptCAS(t) ==
    LET T == thr[t]
        r == compare_and_swap(pageblocks[T.pageblock].owning_thread, ORPHAN, T.id)
    IN
    /\ Running /\ T.pc = "adopt"
    /\ IF ~IsPageblock(T.pageblock, pageblocks)
       THEN Crash(t) /\ UNCHANGED <<pageblocks, global_free_pageblocks>>
       ELSE IF r.ok
       THEN LET list == double_list_insert_front(T.pageblock, T.heap[T.index])
                pbs1 == Relink([pageblocks EXCEPT ![T.pageblock].owning_thread = r.new],
                               list)
            IN  SetLocalFree(t, local_free([T EXCEPT !.heap[T.index] = list], pbs1,
                                global_free_pageblocks, T.pageblock, T.object, "idle"))
       ELSE /\ thr' = [thr EXCEPT ![t].pc = "remote_read"]
            /\ UNCHANGED <<pageblocks, global_free_pageblocks>>
    /\ UNCHANGED <<global_id_counter, global_partial_pageblocks, radix, live,
                   superVars, notHeap>>

\* remote_free, one iteration up to the compare_and_swap64: the owner and
\* the garbage head are read and the object is linked to the old head.
RemoteRead(t) ==
    LET T == thr[t]
        pb == pageblocks[T.pageblock]
    IN
    /\ Running /\ T.pc = "remote_read"
    /\ IF ~IsPageblock(T.pageblock, pageblocks)
       THEN Crash(t) /\ UNCHANGED pageblocks
       ELSE IF pb.owning_thread = ORPHAN
       THEN /\ thr' = [thr EXCEPT ![t].pc = "adopt"]
            /\ UNCHANGED pageblocks
       ELSE /\ thr' = [thr EXCEPT ![t] =
                          [T EXCEPT !.pc = "remote_cas",
                                    !.snap = [id |-> pb.owning_thread,
                                              head |-> pb.garbage_head, next |-> NULL]]]
            /\ pageblocks' = [pageblocks EXCEPT
                   ![T.pageblock].link[slot_index(T.pageblock, pb, T.object)] =
                       pb.garbage_head.next]
    /\ UNCHANGED <<global_id_counter, global_partial_pageblocks,
                   global_free_pageblocks, radix, live, superVars, notHeap>>

\* remote_free's compare_and_swap64(&pageblock->together, old_value,
\* new_value): the object becomes the head of the garbage stack.
RemoteCAS(t) ==
    LET T == thr[t]
        pb == pageblocks[T.pageblock]
        index == [next |-> slot_index(T.pageblock, pb, T.object),
                  count |-> T.snap.head.count + 1]
        r == compare_and_swap(together(pb), <<T.snap.id, T.snap.head>>,
                              <<T.snap.id, index>>)
    IN
    /\ Running /\ T.pc = "remote_cas"
    /\ IF ~IsPageblock(T.pageblock, pageblocks)
       THEN Crash(t) /\ UNCHANGED pageblocks
       ELSE IF r.ok
       THEN /\ pageblocks' = [pageblocks EXCEPT ![T.pageblock].owning_thread = r.new[1],
                                                ![T.pageblock].garbage_head = r.new[2]]
            /\ thr' = [thr EXCEPT ![t] = Done(T)]
       ELSE /\ thr' = [thr EXCEPT ![t] = [T EXCEPT !.pc = "remote_read", !.snap = NoSnap]]
            /\ UNCHANGED pageblocks
    /\ UNCHANGED <<global_id_counter, global_partial_pageblocks,
                   global_free_pageblocks, radix, live, superVars, notHeap>>

\* superunmap: spin_lock(lock), with lock = &super_lock.
SuperunmapLock(t) ==
    /\ Running /\ thr[t].pc = "unmap_lock"
    /\ spin_lock_acquires(super_lock)
    /\ super_lock' = spin_lock_new(super_lock)
    /\ thr' = [thr EXCEPT ![t].pc = "unmap_body"]
    /\ UNCHANGED <<superpage_list, superpages, sph_pageblocks, mapped, stray,
                   global_id_counter, pageblocks, global_partial_pageblocks,
                   global_free_pageblocks, radix, live, notHeap>>

\* superunmap's critical section, buddy_free(super, start, length), and
\* the spin_unlock.  The chunk is no longer a pageblock.
SuperunmapBody(t) ==
    LET T == thr[t]
    IN
    /\ Running /\ T.pc = "unmap_body"
    /\ super_lock' = spin_unlock_new
    /\ IF T.arg.sph \in SphIds /\ superpages[T.arg.sph].page_pool # NULL
       THEN /\ SetSuperState(superunmap_locked(SuperState, T.arg.sph, T.arg.start,
                                               T.arg.length))
            /\ pageblocks' = [pageblocks EXCEPT ![T.arg.start] = NoPageblock]
            /\ thr' = [thr EXCEPT ![t] = Resume(T, T.after)]
       ELSE /\ Crash(t)
            /\ UNCHANGED <<superpage_list, superpages, sph_pageblocks, mapped, stray,
                           pageblocks>>
    /\ UNCHANGED <<global_id_counter, global_partial_pageblocks,
                   global_free_pageblocks, radix, live, notHeap>>

\* The classes in increasing order.
RECURSIVE InOrder(_)
InOrder(S) ==
    IF S = {} THEN <<>>
    ELSE LET least == CHOOSE x \in S : \A y \in S : x <= y
         IN  <<least>> \o InOrder(S \ {least})

\* The thread function returns: streamflow_thread_finalize begins.  todo
\* is the classes still to visit; the thread's own list heads are not
\* read again once a class has been entered.
ExitCall(t) ==
    /\ Running /\ thr[t].pc = "idle"
    /\ thr' = [thr EXCEPT ![t] = [@ EXCEPT !.pc = "fin", !.todo = InOrder(Classes),
                                           !.pageblock = NULL]]
    /\ UNCHANGED <<global_id_counter, pageblocks, global_partial_pageblocks,
                   global_free_pageblocks, radix, live, superVars, notCall>>

\* The pageblock the loops of streamflow_thread_finalize are at: the one
\* in hand, else the head of the next class that has an active list.
FinalizeCursor(T) ==
    LET rest == SelectSeq(T.todo, LAMBDA c : T.heap[c] # <<>>)
    IN  IF T.pageblock # NULL
        THEN [pageblock |-> T.pageblock, index |-> T.index, T |-> T]
        ELSE IF rest # <<>>
        THEN [pageblock |-> Head(T.heap[Head(rest)]), index |-> Head(rest),
              T |-> [T EXCEPT !.todo = Tail(rest), !.index = Head(rest),
                              !.heap[Head(rest)] = <<>>]]
        ELSE [pageblock |-> NULL, index |-> 0, T |-> [T EXCEPT !.todo = <<>>]]

\* A test that sends no pageblock to the global partial list.
has_free_or_garbage_never(pb) == FALSE

\* The test of streamflow_thread_finalize that sends a pageblock to the
\* global partial list.
has_free_or_garbage(pb) == pb.num_free_objects > 0 \/ pb.garbage_head.next # 0

\* One round of the do-while of streamflow_thread_finalize up to the read
\* of `together', or one round of the loop over the inactive caches, or
\* the end of the thread.
FinalizeNext(t) ==
    LET cur == FinalizeCursor(thr[t])
        P == cur.pageblock
        cached == {s \in SizeIndexes : cur.T.inactive[s] # <<>>}
    IN
    /\ Running /\ thr[t].pc = "fin"
    /\ IF P # NULL
       THEN IF ~IsPageblock(P, pageblocks)
            THEN Crash(t) /\ UNCHANGED <<pageblocks, global_partial_pageblocks,
                                         global_free_pageblocks>>
            ELSE LET pb == pageblocks[P]
                     T1 == [cur.T EXCEPT !.pageblock = pb.next]
                 IN  IF pb.num_free_objects = slot_count(pb)
                     THEN /\ SetLocalFree(t, insert_global_free_pageblocks(T1, pageblocks,
                                                 global_free_pageblocks, P, "fin"))
                          /\ UNCHANGED global_partial_pageblocks
                     ELSE IF has_free_or_garbage(pb)
                     THEN LET r == insert_global_partial_pageblocks(pageblocks,
                                       global_partial_pageblocks, P, cur.index)
                          IN  /\ pageblocks' = r.pbs
                              /\ global_partial_pageblocks' = r.gp
                              /\ thr' = [thr EXCEPT ![t] = T1]
                              /\ UNCHANGED global_free_pageblocks
                     ELSE /\ thr' = [thr EXCEPT ![t] =
                                 [cur.T EXCEPT !.pc = "fin_read", !.pageblock = P,
                                               !.snap = [NoSnap EXCEPT !.next = pb.next]]]
                          /\ UNCHANGED <<pageblocks, global_partial_pageblocks,
                                         global_free_pageblocks>>
       ELSE IF cached # {}
       THEN LET s == CHOOSE x \in cached : \A y \in cached : x <= y
            IN  /\ SetLocalFree(t, insert_global_free_pageblocks(
                       [cur.T EXCEPT !.inactive[s] = Tail(@)], pageblocks,
                       global_free_pageblocks, Head(cur.T.inactive[s]), "fin"))
                /\ UNCHANGED global_partial_pageblocks
       ELSE /\ thr' = [thr EXCEPT ![t] = [NoThread EXCEPT !.pc = "dead"]]
            /\ UNCHANGED <<pageblocks, global_partial_pageblocks, global_free_pageblocks>>
    /\ UNCHANGED <<global_id_counter, radix, live, superVars, notHeap>>

\* with_id = pageblock->together.
FinalizeRead(t) ==
    LET T == thr[t]
    IN
    /\ Running /\ T.pc = "fin_read"
    /\ thr' = [thr EXCEPT ![t] =
                  [T EXCEPT !.pc = "fin_cas",
                            !.snap = [id |-> pageblocks[T.pageblock].owning_thread,
                                      head |-> pageblocks[T.pageblock].garbage_head,
                                      next |-> T.snap.next]]]
    /\ UNCHANGED <<global_id_counter, pageblocks, global_partial_pageblocks,
                   global_free_pageblocks, radix, live, superVars, notHeap>>

\* compare_and_swap64(&pageblock->together, with_id, no_id) with no_id
\* the pair (ORPHAN, 0); when it fails the pageblock goes on the global
\* partial list.
FinalizeCAS(t) ==
    LET T == thr[t]
        pb == pageblocks[T.pageblock]
        r == compare_and_swap(together(pb), <<T.snap.id, T.snap.head>>,
                              <<ORPHAN, NoGarbage>>)
        push == insert_global_partial_pageblocks(pageblocks, global_partial_pageblocks,
                                                 T.pageblock, T.index)
    IN
    /\ Running /\ T.pc = "fin_cas"
    /\ thr' = [thr EXCEPT ![t] = [T EXCEPT !.pc = "fin", !.pageblock = T.snap.next,
                                           !.snap = NoSnap]]
    /\ IF r.ok
       THEN /\ pageblocks' = [pageblocks EXCEPT ![T.pageblock].owning_thread = r.new[1],
                                                ![T.pageblock].garbage_head = r.new[2]]
            /\ UNCHANGED global_partial_pageblocks
       ELSE /\ pageblocks' = push.pbs
            /\ global_partial_pageblocks' = push.gp
    /\ UNCHANGED <<global_id_counter, global_free_pageblocks, radix, live,
                   superVars, notHeap>>

(***************************************************************************)
(* Spec: SpecThreads threads, each making up to MaxCalls calls to malloc   *)
(* of any request of Requested, freeing any pointer held by a caller, and  *)
(* then returning from its thread function.                                *)
(***************************************************************************)
SpecThreads == 2
MaxCalls == 2
MediumRequest == MAX_OBJECT_SIZE + 1
LargeRequest == SUPERPAGE_SIZE + 1
Requested == {SmallRequest, MediumRequest}

InitHeap == IdleSize /\ IdleBuddy /\ IdleLifo /\ InitSuper /\ IdleTree /\ IdleHeap

\* Threads are created one after the other.
Begin(t) ==
    /\ t <= SpecThreads /\ global_id_counter = t - 1
    /\ ThreadStart(t) /\ UNCHANGED script
CallMalloc(t) ==
    /\ thr[t].n < MaxCalls
    /\ \E requested_size \in Requested : MallocCall(t, requested_size)
    /\ UNCHANGED script
CallFree(t) == (\E p \in live : FreeCall(t, p)) /\ UNCHANGED script
CallExit(t) == ExitCall(t) /\ UNCHANGED script

Step(t) ==
    \/ RemoveGlobalRead(t) \/ RemoveGlobalCAS(t)
    \/ SupermapLock(t) \/ SupermapBody(t)
    \/ AdoptCAS(t) \/ RemoteRead(t) \/ RemoteCAS(t)
    \/ SuperunmapLock(t) \/ SuperunmapBody(t)
    \/ FinalizeNext(t) \/ FinalizeRead(t) \/ FinalizeCAS(t)

Next == \E t \in Thr : Begin(t) \/ CallMalloc(t) \/ CallFree(t) \/ CallExit(t) \/ Step(t)

Spec == InitHeap /\ [][Next]_vars

(***************************************************************************)
(* Properties of Spec.                                                     *)
(***************************************************************************)
\* The threads inside the critical section of supermap or superunmap,
\* that is inside buddy_alloc or buddy_free.
InBuddy == {t \in Thr : thr[t].pc \in {"map_body", "unmap_body"}}

\* C10: no two threads execute buddy_alloc or buddy_free at the same
\* time, and a thread that executes one holds the spin lock the superpage
\* is under (super_lock, the one lock of every superpage in this build,
\* whoever frees).
C10_BuddyUnderLock ==
    /\ Cardinality(InBuddy) <= 1
    /\ InBuddy # {} => super_lock = 1

\* A thread that never called malloc is inside buddy_free, returning a
\* chunk that another thread's call mapped, while another thread waits
\* for the lock.
C10_Witness ==
    \E t \in Thr, u \in Thr :
        /\ t # u
        /\ thr[t].pc = "unmap_body"
        /\ thr[u].pc \in {"map_lock", "unmap_lock"}
        /\ thr[t].n = 0

\* The slots linked from `head' through the next fields stored in them.
RECURSIVE Chain(_, _, _)
Chain(link, head, fuel) ==
    IF head = 0 \/ fuel = 0 THEN <<>>
    ELSE <<head>> \o Chain(link, link[head], fuel - 1)

\* The pointers into pageblock `a' that callers hold, and the free calls
\* on such pointers that have not yet given the slot back.
HeldIn(a) ==
    {p \in live : p.kind = OBJECT_SMALL /\ p.addr >= a /\ p.addr < a + MIN_PAGEBLOCK_SIZE}
Freeing(a) ==
    {t \in Thr : thr[t].pc \in {"adopt", "remote_read", "remote_cas"}
                 /\ thr[t].pageblock = a}
in_use(a) ==
    {slot_index(a, pageblocks[a], p.addr) : p \in HeldIn(a)}
        \cup {slot_index(a, pageblocks[a], thr[t].object) : t \in Freeing(a)}
local_free_slots(a) == Chain(pageblocks[a].link, pageblocks[a].freed, SlotCap + 1)
remote_garbage(a) ==
    Chain(pageblocks[a].link, pageblocks[a].garbage_head.next, SlotCap + 1)
never_used(a) ==
    IF pageblocks[a].unallocated = 0 THEN {}
    ELSE pageblocks[a].unallocated..slot_count(pageblocks[a])

\* C2: in every pageblock each slot is in exactly one of in-use, local
\* freed list, remote garbage stack and never-used tail, and the four
\* counts add up to the slot count.
C2_SlotAccounting ==
    \A a \in PageblockAddrs :
        IsPageblock(a, pageblocks) =>
            LET pb == pageblocks[a]
                F == SeqSet(local_free_slots(a))
                G == SeqSet(remote_garbage(a))
            IN  /\ in_use(a) \cup F \cup G \cup never_used(a) = 1..slot_count(pb)
                /\ in_use(a) \cap F = {} /\ in_use(a) \cap G = {}
                /\ in_use(a) \cap never_used(a) = {}
                /\ F \cap G = {} /\ F \cap never_used(a) = {}
                /\ G \cap never_used(a) = {}
                /\ Cardinality(HeldIn(a)) + Cardinality(Freeing(a))
                       + Len(local_free_slots(a)) + Len(remote_garbage(a))
                       + Cardinality(never_used(a)) = slot_count(pb)

(***************************************************************************)
(* SpecRace: four threads, created one after the other, each making the    *)
(* calls of its own list in order.  An entry is a call to malloc of `a'    *)
(* bytes, a call to free of the pointer that the b-th malloc of thread a   *)
(* returned (once that malloc has returned), the return from the thread    *)
(* function, or a pthread_join on thread a.  No pointer is freed twice.    *)
(***************************************************************************)
DoMalloc(size) == [op |-> "malloc", a |-> size, b |-> 0]
DoFree(by, seq) == [op |-> "free", a |-> by, b |-> seq]
DoExit == [op |-> "exit", a |-> 0, b |-> 0]
DoJoin(who) == [op |-> "join", a |-> who, b |-> 0]

Calls ==
    <<  <<DoMalloc(SmallRequest), DoMalloc(SmallRequest), DoMalloc(SmallRequest),
          DoFree(1, 1), DoExit>>,
        <<DoJoin(1), DoMalloc(SmallRequest), DoMalloc(SmallRequest),
          DoMalloc(SmallRequest)>>,
        <<DoJoin(1), DoMalloc(SmallRequest), DoMalloc(SmallRequest), DoFree(3, 1),
          DoExit>>,
        <<DoFree(3, 2), DoMalloc(MediumRequest), DoFree(4, 1),
          DoMalloc(LargeRequest), DoFree(4, 2)>>  >>

InitRace ==
    /\ IdleSize /\ IdleBuddy /\ IdleLifo /\ InitSuper /\ IdleTree
    /\ global_id_counter = 0
    /\ thr = [t \in Thr |-> NoThread]
    /\ pageblocks = [a \in PageblockAddrs |-> NoPageblock]
    /\ global_partial_pageblocks = [c \in Classes |-> NULL]
    /\ global_free_pageblocks = [s \in SizeIndexes |-> [top |-> NULL, count |-> 0]]
    /\ radix = <<>>
    /\ live = {}
    /\ script = [t \in Thr |-> IF t <= Len(Calls) THEN Calls[t] ELSE <<>>]

NextCall(t, op) == script[t] # <<>> /\ Head(script[t]).op = op
Called(t) == script' = [script EXCEPT ![t] = Tail(@)]

ScriptStart(t) ==
    /\ global_id_counter = t - 1
    /\ ThreadStart(t) /\ UNCHANGED script
ScriptMalloc(t) ==
    /\ NextCall(t, "malloc")
    /\ MallocCall(t, Head(script[t]).a) /\ Called(t)
ScriptFree(t) ==
    /\ NextCall(t, "free")
    /\ \E p \in live :
          /\ p.by = Head(script[t]).a /\ p.seq = Head(script[t]).b
          /\ FreeCall(t, p)
    /\ Called(t)
ScriptExit(t) ==
    /\ NextCall(t, "exit")
    /\ ExitCall(t) /\ Called(t)
ScriptJoin(t) ==
    /\ NextCall(t, "join")
    /\ Running /\ thr[t].pc = "idle" /\ thr[Head(script[t]).a].pc = "dead"
    /\ Called(t)
    /\ UNCHANGED <<global_id_counter, thr, pageblocks, global_partial_pageblocks,
                   global_free_pageblocks, radix, live, superVars, notCall>>

NextRace ==
    \E t \in Thr :
        \/ ScriptStart(t) \/ ScriptMalloc(t) \/ ScriptFree(t) \/ ScriptExit(t)
        \/ ScriptJoin(t) \/ Step(t)

SpecRace == InitRace /\ [][NextRace]_vars

(***************************************************************************)
(* Properties of SpecRace.                                                 *)
(***************************************************************************)
\* C1: any two pointers that callers hold at the same time have disjoint
\* ranges [p, p + usable_size(p)): no slot and no chunk is handed out to
\* two callers.
C1_LiveRangesDisjoint ==
    \A p \in live, q \in live :
        p # q => p.addr + p.usable <= q.addr \/ q.addr + q.usable <= p.addr

\* The pageblocks a thread treats as its own.
Own(t) ==
    UNION {SeqSet(thr[t].heap[c]) : c \in Classes}
        \cup UNION {SeqSet(thr[t].inactive[s]) : s \in SizeIndexes}

\* C3: at most one thread has a given pageblock on its active list or in
\* its inactive cache, and it is the thread whose id is in owning_thread
\* (so of the threads that try to adopt an ORPHAN pageblock one succeeds).
C3_SingleOwner ==
    \A a \in PageblockAddrs, t \in Thr :
        a \in Own(t) =>
            /\ pageblocks[a].owning_thread = thr[t].id
            /\ \A u \in Thr \ {t} : a \notin Own(u)

\* C5: for every pointer a caller holds, the metadata index gives a
\* record of the kind of the path that produced it, with the pageblock
\* that contains the pointer (small), the superpage header of its chunk
\* and the chunk size (medium), or the mapped size (large).
C5_LookupMatches ==
    \A p \in live :
        LET rec == radix_extract(radix, p.addr)
        IN  /\ rec.object_type = p.kind
            /\ p.kind = OBJECT_SMALL =>
                  /\ IsPageblock(rec.ptr, pageblocks)
                  /\ mem_pool(rec.ptr) <= p.addr
                  /\ p.addr + p.usable <=
                         mem_pool(rec.ptr) + pageblocks[rec.ptr].mem_pool_size
            /\ p.kind = OBJECT_MEDIUM =>
                  /\ rec.size = p.usable
                  /\ rec.ptr \in SphIds
                  /\ superpages[rec.ptr].page_pool # NULL
                  /\ superpages[rec.ptr].page_pool <= p.addr
                  /\ p.addr + p.usable <= superpages[rec.ptr].page_pool + SUPERPAGE_SIZE
            /\ p.kind = OBJECT_LARGE => rec.size = p.usable

(***************************************************************************)
(* Buddy bitmaps.                                                          *)
(***************************************************************************)
\* The free-list entries of order o of a superpage that belong to the
\* buddy pair with bit number nr.
PairFree(super, o, nr) ==
    Cardinality({k \in 1..Len(super.free_list[o]) :
                    find_bit_index(super, super.free_list[o][k], o) = nr})

\* The bit of pair nr of order o is 1 exactly when one of the two buddies
\* is on the free list of order o.
BitIsParity(super, o, nr) ==
    (nr \in super.bitmap[o]) <=> (PairFree(super, o, nr) % 2 = 1)

\* The bit numbers a bitmap can hold.
BitNumbers == 0..(PAGES_PER_SUPERPAGE - 1)

\* C11 as stated: after every buddy operation, for each order, the topmost
\* one included, and each buddy pair, the bit of the pair is 1 exactly when
\* exactly one of the two buddies is on the free list of that order.
C11_BitmapParityAllOrders ==
    \A i \in 1..Len(superpage_list) :
        \A o \in Orders : \A nr \in BitNumbers :
            BitIsParity(superpages[superpage_list[i]], o, nr)

(***************************************************************************)
(* C11: after every buddy operation, for each order below the topmost one  *)
(* and each buddy pair, the bit of the pair is 1 exactly when exactly one  *)
(* of the two buddies is on the free list of that order; the bit of the    *)
(* topmost order is 1 exactly when the whole-superpage chunk is not on    *)
(* its free list.                                                          *)
(***************************************************************************)
C11_BitmapParity ==
    \A i \in 1..Len(superpage_list) :
        LET s == superpages[superpage_list[i]]
        IN  /\ \A o \in Orders : o < BUDDY_ORDER_MAX - 1 =>
                   \A nr \in BitNumbers : BitIsParity(s, o, nr)
            /\ s.bitmap[BUDDY_ORDER_MAX - 1] =
                   IF s.free_list[BUDDY_ORDER_MAX - 1] = <<>> THEN {0} ELSE {}

\* A superpage split down to single pages: one pair of order 0 with one
\* buddy free (bit 1), a free chunk on a higher order, and two chunks out.
C11_Witness ==
    \E i \in 1..Len(superpage_list) :
        LET s == superpages[superpage_list[i]]
        IN  /\ s.bitmap[0] # {}
            /\ \E nr \in s.bitmap[0] : PairFree(s, 0, nr) = 1
            /\ \E o \in Orders : o > 0 /\ s.free_list[o] # <<>>
            /\ Cardinality({c \in chunks : c.sph = superpage_list[i]}) >= 2

(***************************************************************************)
(* SpecOrder: one call of buddy_alloc in each build of streamflow.h.  A    *)
(* build is its number of pages per superpage and its BUDDY_ORDER_MAX;     *)
(* buddy_alloc only uses size / PAGE_SIZE, so the page size of the model   *)
(* is kept.  The superpage has one free chunk, of order `found', at its    *)
(* start (the whole superpage when found is the topmost order).            *)
(***************************************************************************)
Archs ==
    << [name |-> "x86", pages |-> 1024, order_max |-> 11],
       [name |-> "ppc64", pages |-> 4096, order_max |-> 13],
       [name |-> "ia64", pages |-> 16384, order_max |-> 15],
       [name |-> "x86_64", pages |-> 2048, order_max |-> 12] >>

\* The address of the page pool of the superpage (aligned to its size).
ArchPool(a) == Archs[a].pages * PAGE_SIZE

\* The superpage header when the chunk of order f at the start of the pool
\* is the only free one.
ArchSuper(a, f) ==
    LET top == Archs[a].order_max - 1
    IN  [page_pool |-> ArchPool(a),
         free_list |-> [o \in 0..top |-> IF o = f THEN <<ArchPool(a)>> ELSE <<>>],
         bitmap |-> [o \in 0..top |->
                        IF f < top /\ o \in {f, top} THEN {0} ELSE {}],
         largest_free_order |-> f]

InitOrder ==
    /\ arch \in 1..Len(Archs)
    /\ found \in 0..(Archs[arch].order_max - 1)
    /\ request \in {(2 ^ o) * PAGE_SIZE : o \in 0..found}
    /\ slot = 1
    /\ result = Pending
    /\ want = 0 /\ made = 0
    /\ IdleCopy /\ IdleApi
    /\ InitSuper /\ IdleTree /\ IdleBuddy /\ IdleLifo /\ IdleHeap

BuddyAlloc ==
    /\ result = Pending
    /\ result' = buddy_alloc_in(Archs[arch].order_max, ArchSuper(arch, found), request)
    /\ UNCHANGED <<request, slot, orderVars, copyVars, apiVars, notSize>>

NextOrder == BuddyAlloc
SpecOrder == InitOrder /\ [][NextOrder]_vars

(***************************************************************************)
(* C12: buddy_alloc(super, bytes) returns a chunk of exactly bytes / page  *)
(* size contiguous pages inside the page pool of the superpage, for every  *)
(* power-of-two request from one page to the whole superpage and every     *)
(* build, whenever a free chunk of sufficient order exists: the order it   *)
(* derives is the base-2 logarithm of the page count, the requested range  *)
(* lies in the pool and none of it is left on a free list.                 *)
(***************************************************************************)
C12_ChunkIsRequest ==
    result # Pending =>
        LET pool == ArchPool(arch)
            s == result.super
        IN  /\ 2 ^ result.order = request \div PAGE_SIZE
            /\ result.chunk >= pool
            /\ result.chunk + request <= pool + Archs[arch].pages * PAGE_SIZE
            /\ \A o \in DOMAIN s.free_list : \A k \in 1..Len(s.free_list[o]) :
                  \/ s.free_list[o][k] + (2 ^ o) * PAGE_SIZE <= result.chunk
                  \/ s.free_list[o][k] >= result.chunk + request

(***************************************************************************)
(* Frees of the objects of a thread that has exited.                       *)
(***************************************************************************)
\* Thread t starts a free of a small object that is not local_free: it
\* goes on to adopt_pageblock or to remote_free.
ForeignFree(t) ==
    /\ thr[t].pc = "idle"
    /\ thr'[t].pc \in {"adopt", "remote_read"}

\* The object whose free thread t starts was allocated by a thread that
\* has exited.
FreesOfExited(t) ==
    \E p \in live \ live' : p.kind = OBJECT_SMALL /\ thr[p.by].pc = "dead"

OrphanIsFull ==
    \A a \in PageblockAddrs :
        (IsPageblock(a, pageblocks) /\ pageblocks[a].owning_thread = ORPHAN)
            => /\ pageblocks[a].num_free_objects = 0
               /\ pageblocks[a].garbage_head = NoGarbage

DoStale(by, seq) == [op |-> "stale", a |-> by, b |-> seq]

Scenarios ==
    { \* a cross-thread free followed by an allocation of the owner
      << <<DoMalloc(SmallRequest), DoJoin(2), DoMalloc(SmallRequest)>>,
         <<DoFree(1, 1), DoExit>> >>,
      \* the same with the pageblock of the owner full
      << <<DoMalloc(SmallRequest), DoMalloc(SmallRequest), DoJoin(2),
           DoMalloc(SmallRequest)>>,
         <<DoFree(1, 1), DoExit>> >>,
      \* allocate, free, allocate again, and a concurrent free through an
      \* outdated pointer
      << <<DoMalloc(SmallRequest), DoFree(1, 1), DoMalloc(SmallRequest),
           DoMalloc(SmallRequest), DoMalloc(SmallRequest)>>,
         <<DoStale(1, 2)>> >>,
      \* a thread that exits with a full pageblock, and one that frees its
      \* objects, then allocates and frees a medium object
      << <<DoMalloc(SmallRequest), DoMalloc(SmallRequest), DoExit>>,
         <<DoJoin(1), DoFree(1, 1), DoFree(1, 2), DoMalloc(MediumRequest),
           DoFree(2, 1), DoMalloc(SmallRequest)>> >>,
      \* a thread that exits with a partly used pageblock, which another
      \* thread takes from the global partial list
      << <<DoMalloc(SmallRequest), DoExit>>,
         <<DoJoin(1), DoMalloc(SmallRequest), DoFree(1, 1)>> >> }

InitScenario ==
    /\ IdleSize /\ IdleBuddy /\ IdleLifo /\ InitSuper /\ IdleTree
    /\ global_id_counter = 0
    /\ thr = [t \in Thr |-> NoThread]
    /\ pageblocks = [a \in PageblockAddrs |-> NoPageblock]
    /\ global_partial_pageblocks = [c \in Classes |-> NULL]
    /\ global_free_pageblocks = [s \in SizeIndexes |-> [top |-> NULL, count |-> 0]]
    /\ radix = <<>>
    /\ live = {}
    /\ \E calls \in Scenarios :
          script = [t \in Thr |-> IF t <= Len(calls) THEN calls[t] ELSE <<>>]

ScriptStale(t) ==
    /\ NextCall(t, "stale")
    /\ \E p \in live :
          /\ p.by = Head(script[t]).a /\ p.seq = Head(script[t]).b
          /\ StaleFreeCall(t, p)
    /\ Called(t)

NextScenario ==
    \E t \in Thr :
        \/ ScriptStart(t) \/ ScriptMalloc(t) \/ ScriptFree(t) \/ ScriptExit(t)
        \/ ScriptJoin(t) \/ ScriptStale(t) \/ Step(t)

SpecScenario == InitScenario /\ [][NextScenario]_vars

(***************************************************************************)
(* Allocation after a cross-thread free.                                   *)
(***************************************************************************)
\* The address of slot i of pageblock a.
SlotAddr(a, i) == mem_pool(a) + (i - 1) * pageblocks[a].object_size

\* In this step malloc returns the small object q to its caller, taken
\* from pageblock a, the head of the caller's active list at the call.
MallocFromHead(q, a) ==
    /\ q \in live' \ live /\ q.kind = OBJECT_SMALL
    /\ thr[q.by].pc = "idle"
    /\ IsPageblock(a, pageblocks)
    /\ \E c \in Classes : thr[q.by].heap[c] # <<>> /\ Head(thr[q.by].heap[c]) = a
    /\ radix_extract(radix, q.addr).ptr = a

\* C14 as stated: after thread A allocated p and thread B released it,
\* the next allocation of A garbage-collects and returns p: a malloc
\* served by a head pageblock with remotely freed slots returns the slot
\* freed last.
C14_RemoteFreedSlotReused ==
    [][\A q \in live' \ live : \A a \in PageblockAddrs :
          (MallocFromHead(q, a) /\ pageblocks[a].garbage_head.next # 0)
              => q.addr = SlotAddr(a, pageblocks[a].garbage_head.next)]_vars

(***************************************************************************)
(* C14: malloc garbage-collects the head pageblock of the active list      *)
(* only when that pageblock has no free object; then it returns the slot   *)
(* that was remotely freed last.  While the pageblock has free objects a   *)
(* remotely freed slot stays on the garbage stack and malloc returns the   *)
(* head of the freed list, else the next never-used slot (so after         *)
(* p = allocate; release(p) by another thread; q = allocate, q is the     *)
(* slot after p).                                                          *)
(***************************************************************************)
C14_CollectsWhenNoFree ==
    [][\A q \in live' \ live : \A a \in PageblockAddrs :
          MallocFromHead(q, a) =>
              IF pageblocks[a].num_free_objects = 0
              THEN /\ pageblocks[a].garbage_head.next # 0
                   /\ q.addr = SlotAddr(a, pageblocks[a].garbage_head.next)
                   /\ pageblocks'[a].garbage_head = NoGarbage
              ELSE /\ pageblocks'[a].garbage_head = pageblocks[a].garbage_head
                   /\ q.addr = SlotAddr(a, IF pageblocks[a].freed # 0
                                           THEN pageblocks[a].freed
                                           ELSE pageblocks[a].unallocated)]_vars

\* Thread 1 filled its pageblock, thread 2 freed the first object and
\* exited, and the third malloc of thread 1 returned the first slot again.
C14_Witness ==
    /\ thr[2].pc = "dead"
    /\ \E q \in live :
          /\ q.by = 1 /\ q.seq = 3 /\ q.kind = OBJECT_SMALL
          /\ q.addr = mem_pool(radix_extract(radix, q.addr).ptr)
          /\ pageblocks[radix_extract(radix, q.addr).ptr].garbage_head = NoGarbage
          /\ \E r \in live : r.by = 1 /\ r.seq = 2 /\ r.addr # q.addr

\* How often slot i occurs in a list of slots.
Occurrences(list, i) == Cardinality({k \in 1..Len(list) : list[k] = i})

(***************************************************************************)
(* C15: when thread A has allocated p, freed it and allocated q in the     *)
(* same slot, a concurrent free of the outdated p by thread B leaves the   *)
(* slot of q alone: every slot of a pageblock is held by at most one live  *)
(* allocation, or is once on the freed list, or once on the garbage        *)
(* stack, never two of these.                                              *)
(***************************************************************************)
C15_SlotReclaimedOnce ==
    \A a \in PageblockAddrs :
        IsPageblock(a, pageblocks) =>
            \A i \in 1..slot_count(pageblocks[a]) :
                Cardinality({p \in HeldIn(a) : slot_index(a, pageblocks[a], p.addr) = i})
                    + Occurrences(local_free_slots(a), i)
                    + Occurrences(remote_garbage(a), i) <= 1

\* Thread 1 is the only thread so far, its second malloc has returned the
\* small object q, and q is the only object held: the object of its first
\* malloc has been freed, by thread 1 itself (in the call lists of
\* SpecScenario, before the second malloc).
SecondOfOne(q) ==
    /\ live = {q} /\ q.by = 1 /\ q.seq = 2 /\ q.kind = OBJECT_SMALL
    /\ thr[1].pc = "idle" /\ thr[1].n = 2
    /\ \A u \in Thr \ {1} : thr[u].pc = "unborn"

(***************************************************************************)
(* C16: on a fresh allocator in a single thread, p = allocate; release(p); *)
(* q = allocate yields q == p: q is the first slot of the one pageblock    *)
(* in use, and no other slot of it has ever been handed out (so p was      *)
(* that slot), although the free made the pageblock fully free and moved   *)
(* it to the inactive cache.                                               *)
(***************************************************************************)
C16_FreedSlotReturned ==
    \A q \in live :
        SecondOfOne(q) =>
            LET a == radix_extract(radix, q.addr).ptr
            IN  /\ IsPageblock(a, pageblocks)
                /\ \A b \in PageblockAddrs : IsPageblock(b, pageblocks) => b = a
                /\ q.addr = SlotAddr(a, 1)
                /\ pageblocks[a].unallocated = 2
                /\ pageblocks[a].freed = 0

\* The second malloc of the scenario has returned: the pageblock is back
\* at the head of the active list of thread 1 and its inactive cache is
\* empty again.
C16_Witness ==
    \E q \in live :
        /\ SecondOfOne(q)
        /\ q.addr = SlotAddr(radix_extract(radix, q.addr).ptr, 1)
        /\ \E c \in Classes :
              thr[1].heap[c] = <<radix_extract(radix, q.addr).ptr>>
        /\ \A s \in SizeIndexes : thr[1].inactive[s] = <<>>
        /\ pageblocks[radix_extract(radix, q.addr).ptr].num_free_objects
               = slot_count(pageblocks[radix_extract(radix, q.addr).ptr]) - 1

(***************************************************************************)
(* SpecFill: one thread allocates `want' medium chunks of `request' bytes  *)
(* (a power-of-two number of pages) that fit in one superpage, and then    *)
(* releases them in any order.  As in SpecBuddy a step is a whole          *)
(* supermap or superunmap.                                                 *)
(***************************************************************************)
InitFill ==
    /\ request \in ChunkSizes
    /\ want \in 1..(SUPERPAGE_SIZE \div request)
    /\ made = 0
    /\ slot = 1 /\ result = Pending /\ arch = 0 /\ found = 0 /\ IdleCopy /\ IdleApi
    /\ chunks = {}
    /\ InitSuper /\ IdleTree /\ IdleLifo /\ IdleHeap

FillMap ==
    /\ made < want
    /\ super_lock = 0
    /\ can_supermap(SuperState, request)
    /\ LET m == supermap_locked(SuperState, request)
       IN  /\ SetSuperState(m.B)
           /\ chunks' = chunks \cup {[start |-> m.pages, length |-> request, sph |-> m.sph]}
    /\ made' = made + 1
    /\ UNCHANGED <<super_lock, request, slot, result, arch, found, want, copyVars, apiVars,
                   lifoVars, heapVars, treeVars>>

FillUnmap ==
    \E c \in chunks :
        /\ made = want
        /\ super_lock = 0
        /\ SetSuperState(superunmap_locked(SuperState, c.sph, c.start, c.length))
        /\ chunks' = chunks \ {c}
        /\ UNCHANGED <<super_lock, notBuddy>>

NextFill == FillMap \/ FillUnmap
SpecFill == InitFill /\ [][NextFill]_vars

\* The caller has released every chunk it allocated.
AllReleased == made = want /\ chunks = {}

(***************************************************************************)
(* C17: when one thread allocates medium chunks of one size from a single  *)
(* superpage (filling it, in particular) and then releases all of them,    *)
(* the superpage stays mapped until the last release and is then unmapped  *)
(* by one page_free of its base address and SUPERPAGE_SIZE bytes: no       *)
(* page_free is issued on any other range or a second time.                *)
(***************************************************************************)
C17_UnmapOnce ==
    /\ stray = 0
    /\ (made > 0 /\ ~AllReleased) =>
          /\ Len(superpage_list) = 1
          /\ \E r \in Regions :
                /\ mapped[r] = SUPERPAGE_SIZE
                /\ superpages[superpage_list[1]].page_pool = RegionBase(r)
                /\ \A q \in Regions \ {r} : mapped[q] = 0
    /\ AllReleased => \A r \in Regions : mapped[r] = 0

\* The superpage was filled with at least four equal chunks, all of them
\* have been released, and nothing is mapped any more.
C17_Witness ==
    /\ AllReleased
    /\ want * request = SUPERPAGE_SIZE /\ want >= 4
    /\ \A r \in Regions : mapped[r] = 0
    /\ stray = 0

\* C18 as stated: after two chunks three orders below the topmost one
\* have been allocated from a superpage and freed, the free list of the
\* topmost order of the superpage holds the whole-superpage chunk and the
\* free lists of the lower orders are empty.
C18_WholeChunkOnTopList ==
    AllReleased =>
        \E h \in SphIds :
            /\ Len(superpages[h].free_list[BUDDY_ORDER_MAX - 1]) = 1
            /\ \A o \in Orders : o < BUDDY_ORDER_MAX - 1
                                     => superpages[h].free_list[o] = <<>>

(***************************************************************************)
(* C18: after the chunks allocated from a superpage (two chunks three      *)
(* orders below the topmost one, in particular) have all been freed,       *)
(* buddy_free has merged them back into the whole superpage and given it   *)
(* back: the superpage is off superpage_list, its header is on the free    *)
(* list of sph_pageblocks, and no free list of any order, the topmost      *)
(* included, holds a chunk.                                                *)
(***************************************************************************)
C18_MergedAndReleased ==
    AllReleased =>
        /\ superpage_list = <<>>
        /\ sph_pageblocks.freed = <<1>>
        /\ \A h \in SphIds : \A o \in Orders : superpages[h].free_list[o] = <<>>

\* Two chunks three orders below the topmost one were allocated and both
\* have been freed.
C18_Witness ==
    /\ AllReleased /\ want = 2
    /\ request = (2 ^ (BUDDY_ORDER_MAX - 4)) * PAGE_SIZE
    /\ superpage_list = <<>>
    /\ sph_pageblocks.freed = <<1>>

(***************************************************************************)
(* SpecExhaust: one thread calls malloc for medium and large objects until *)
(* the page provider has no room left, and frees what it holds in any      *)
(* order.  `want' counts the calls to malloc, `made' the calls that        *)
(* returned, `found' the calls of page_alloc in which mmap returned        *)
(* MAP_FAILED.  A step is a whole malloc or free.                          *)
(***************************************************************************)
MaxAttempts == 6
ExhaustSizes == {MAX_OBJECT_SIZE + 1, SUPERPAGE_SIZE, SUPERPAGE_SIZE + 1, 2 * SUPERPAGE_SIZE}

\* page_alloc: mmap returns MAP_FAILED when the provider has no room.
mmap_failed(mp) == FreeRegions(mp) = {}

InitExhaust ==
    /\ request = 0 /\ slot = 1 /\ result = Pending
    /\ IdleOrder /\ IdleCopy /\ IdleApi
    /\ chunks = {}
    /\ InitSuper /\ IdleTree /\ IdleLifo
    /\ global_id_counter = 1
    /\ thr = [t \in Thr |-> IF t = 1 THEN [NoThread EXCEPT !.pc = "idle", !.id = 1]
                            ELSE NoThread]
    /\ pageblocks = [a \in PageblockAddrs |-> NoPageblock]
    /\ global_partial_pageblocks = [c \in Classes |-> NULL]
    /\ global_free_pageblocks = [s \in SizeIndexes |-> [top |-> NULL, count |-> 0]]
    /\ radix = <<>>
    /\ live = {}
    /\ script = [t \in Thr |-> <<>>]

\* page_alloc's perror, fprintf, fflush and exit(1): the process ends
\* inside the call to malloc, which never returns.
page_alloc_exit ==
    /\ found' = found + 1
    /\ Crash(1)
    /\ UNCHANGED <<made, chunks, superVars>>

\* malloc of a large object: page_alloc(requested_size).
ExhaustLarge ==
    \E size \in {s \in ExhaustSizes : malloc_route(s, 1).kind = OBJECT_LARGE} :
        /\ Running /\ want < MaxAttempts
        /\ request' = size /\ want' = want + 1
        /\ IF mmap_failed(mapped)
           THEN page_alloc_exit
           ELSE /\ mapped' = page_alloc_map(mapped, size)
                /\ chunks' = chunks \cup {[start |-> page_alloc_addr(mapped),
                                           length |-> size, sph |-> NULL]}
                /\ made' = made + 1
                /\ UNCHANGED <<found, thr, super_lock, superpage_list, superpages,
                               sph_pageblocks, stray>>
        /\ UNCHANGED <<slot, result, arch, copyVars, apiVars, lifoVars, global_id_counter, pageblocks,
                       global_partial_pageblocks, global_free_pageblocks, radix,
                       live, script, treeVars>>

\* malloc of a medium object: supermap, whose get_free_superpage calls
\* page_alloc(SUPERPAGE_SIZE) when no superpage has a free chunk that is
\* large enough.
ExhaustMedium ==
    \E size \in {s \in ExhaustSizes : malloc_route(s, 1).kind = OBJECT_MEDIUM} :
        /\ Running /\ want < MaxAttempts
        /\ request' = size /\ want' = want + 1
        /\ IF ~can_supermap(SuperState, malloc_route(size, 1).usable)
           THEN page_alloc_exit
           ELSE LET m == supermap_locked(SuperState, malloc_route(size, 1).usable)
                IN  /\ SetSuperState(m.B)
                    /\ chunks' = chunks \cup {[start |-> m.pages,
                                               length |-> malloc_route(size, 1).usable,
                                               sph |-> m.sph]}
                    /\ made' = made + 1
                    /\ UNCHANGED <<found, thr, super_lock>>
        /\ UNCHANGED <<slot, result, arch, copyVars, apiVars, lifoVars, global_id_counter, pageblocks,
                       global_partial_pageblocks, global_free_pageblocks, radix,
                       live, script, treeVars>>

\* free of one of the objects: page_free of a large one, superunmap of a
\* medium one.
ExhaustFree ==
    \E c \in chunks :
        /\ Running
        /\ IF c.sph = NULL
           THEN /\ mapped' = page_free_map(mapped, c.start, c.length)
                /\ UNCHANGED <<superpage_list, superpages, sph_pageblocks, stray>>
           ELSE SetSuperState(superunmap_locked(SuperState, c.sph, c.start, c.length))
        /\ chunks' = chunks \ {c}
        /\ UNCHANGED <<super_lock, notBuddy>>

NextExhaust == ExhaustLarge \/ ExhaustMedium \/ ExhaustFree
SpecExhaust == InitExhaust /\ [][NextExhaust]_vars

(***************************************************************************)
(* C19: when the page provider fails during a call to malloc (for a large  *)
(* object or for a new superpage) the call returns and the process keeps   *)
(* running, so that the caller can free memory and retry: every call that  *)
(* was made has returned, and no thread has left through exit.             *)
(***************************************************************************)
C19_ExhaustionReturnsNull ==
    found > 0 => Running /\ made = want

(***************************************************************************)
(* SpecRealloc: realloc(object, want) of an object that malloc(request)    *)
(* returned, for every pair of sizes of a set that covers the three kinds  *)
(* of object.  realloc is computed as a function of the two sizes: the     *)
(* block it returns, the size it reads for the old object, and the length  *)
(* of its memcpy (0 when it returns the old block or changes it in place). *)
(***************************************************************************)
ReallocSizes ==
    {0, 8, 100, 1031, 4133, 8000, 8315, 12410, MAX_OBJECT_SIZE, MAX_OBJECT_SIZE + 1,
     SUPERPAGE_SIZE - 1, SUPERPAGE_SIZE, SUPERPAGE_SIZE + 1, 2 * SUPERPAGE_SIZE,
     2 * SUPERPAGE_SIZE + 1, 4 * SUPERPAGE_SIZE}

\* realloc's "memcpy(new_object, object, old_size)" into a fresh block.
realloc_move(block, size, old) ==
    [block |-> block, old_size |-> old, copied |-> old]

realloc_same(block, old) == [block |-> block, old_size |-> old, copied |-> 0]

realloc(requested, size) ==
    LET object == malloc_route(requested, 1)
    IN
    IF object = NoResult THEN realloc_same(malloc_route(size, 1), 0)
    ELSE IF size = 0 THEN realloc_same(NoResult, 0)
    ELSE IF object.kind = OBJECT_LARGE
    THEN LET old == object.usable
         IN  IF size = old THEN realloc_same(object, old)
             ELSE IF size <= SUPERPAGE_SIZE
             THEN \* memcpy(new_object, object, size)
                  [block |-> malloc_route(size, 1), old_size |-> old, copied |-> size]
             ELSE IF size < old
             THEN IF size > old \div 2
                  THEN realloc_same(object, old)
                  ELSE \* mremap in place
                       realloc_same([object EXCEPT !.usable = size], old)
             ELSE \* mremap(MREMAP_MAYMOVE): the kernel moves the old pages
                  [block |-> [object EXCEPT !.usable = size], old_size |-> old,
                   copied |-> old]
    ELSE IF object.kind = OBJECT_MEDIUM
    THEN LET old == object.usable
         IN  IF size = old THEN realloc_same(object, old)
             ELSE IF size > SUPERPAGE_SIZE
             THEN realloc_move(malloc_route(size, 1), size, old)
             ELSE IF size > MAX_OBJECT_SIZE
             THEN IF medium_size(size) = old
                  THEN realloc_same(object, old)
                  ELSE realloc_move(malloc_route(size, 1), size, old)
             ELSE realloc_move(malloc_route(size, 1), size, old)
    ELSE LET old == object.usable
         IN  IF size < MAX_OBJECT_SIZE /\ compute_size_class(old) = compute_size_class(size)
             THEN realloc_same(object, old)
             ELSE IF size < old /\ size > old \div 2
             THEN realloc_same(object, old)
             ELSE realloc_move(malloc_route(size, 1), size, old)

InitRealloc ==
    /\ request \in ReallocSizes
    /\ want \in ReallocSizes
    /\ slot = 1 /\ result = Pending
    /\ arch = 0 /\ found = 0 /\ made = 0
    /\ IdleCopy /\ IdleApi
    /\ InitSuper /\ IdleTree /\ IdleBuddy /\ IdleLifo /\ IdleHeap

Realloc ==
    /\ result = Pending
    /\ LET r == realloc(request, want)
       IN  /\ result' = r.block
           /\ old_size' = r.old_size
           /\ copied' = r.copied
    /\ UNCHANGED <<request, slot, orderVars, apiVars, notSize>>

NextRealloc == Realloc
SpecRealloc == InitRealloc /\ [][NextRealloc]_vars

\* The bytes of the old object that the returned block holds.
Kept ==
    IF copied = 0
    THEN IF old_size < result.usable THEN old_size ELSE result.usable
    ELSE IF copied < result.usable THEN copied ELSE result.usable

(***************************************************************************)
(* C20: realloc(object, want) of an object of `request' bytes returns a    *)
(* block that holds the first min(request, want) bytes of the old one,     *)
(* and when it copies it copies min(old size, want) bytes: the copy never  *)
(* runs past the end of the returned block nor past the end of the old     *)
(* one, whatever the kinds of the old and the new object.                  *)
(***************************************************************************)
C20_ReallocCopiesPrefix ==
    (result # Pending /\ request # 0 /\ want # 0) =>
        /\ copied <= result.usable
        /\ copied <= malloc_route(request, 1).usable
        /\ copied # 0 => copied = (IF old_size < want THEN old_size ELSE want)
        /\ Kept >= (IF request < want THEN request ELSE want)

(***************************************************************************)
(* SpecAlign: memalign(boundary, request) for power-of-two boundaries and  *)
(* sizes of the three kinds.  The object that memalign's malloc returns    *)
(* is slot number `slot' of a pageblock (small) or a chunk or mapping      *)
(* (medium, large) that starts a region of the page provider.              *)
(***************************************************************************)
Boundaries == {8, 16, 32, 64, 128, 256, PAGE_SIZE, 2 * PAGE_SIZE}
AlignSizes == {0, 1, 20, 100, 123, 777, 4000, PAGE_SIZE, MAX_OBJECT_SIZE + 1,
               SUPERPAGE_SIZE + 1}

\* x & ~(boundary - 1) for a power of two: the low bits are cleared.
clear_low_bits(x, b) == x - (x % b)

\* memalign's argument to malloc: (size + boundary - 1) & ~(boundary - 1).
memalign_size(b, size) == clear_low_bits(size + b - 1, b)

\* A variant that returns malloc's pointer as it is.
memalign_pointer_same(p, b) == p

\* memalign's return value: ((unsigned long)p + boundary - 1) & ~(boundary - 1).
memalign_pointer(p, b) == clear_low_bits(p + b - 1, b)

InitAlign ==
    /\ boundary \in Boundaries
    /\ request \in AlignSizes
    /\ slot \in 1..MaxSlot
    /\ result = Pending
    /\ mem = NULL /\ pointer = NULL /\ nmemb = 0 /\ size_class = 0
    /\ IdleOrder /\ IdleCopy
    /\ InitSuper /\ IdleTree /\ IdleBuddy /\ IdleLifo /\ IdleHeap

Memalign ==
    \E r \in Regions :
        LET route == malloc_route(memalign_size(boundary, request), slot)
            p == IF route = NoResult THEN NULL ELSE RegionBase(r) + route.offset
        IN  /\ result = Pending
            /\ result' = route
            /\ mem' = p
            /\ pointer' = IF p = NULL THEN NULL ELSE memalign_pointer(p, boundary)
            /\ UNCHANGED <<request, slot, orderVars, copyVars, boundary, nmemb, size_class,
                           notSize>>

NextAlign == Memalign
SpecAlign == InitAlign /\ [][NextAlign]_vars

\* The object that free(pointer) gives back: local_free writes the link of
\* the freed list at `pointer' and malloc reads it at the start of the
\* slot; superunmap and page_free are called with `pointer'.
FreedObject == pointer

(***************************************************************************)
(* C21: the `request' bytes at the pointer that memalign returns lie       *)
(* inside the object that its malloc obtained, and free of that pointer    *)
(* gives back exactly that object.                                         *)
(***************************************************************************)
C21_AlignedBlockInside ==
    pointer # NULL =>
        /\ mem <= pointer
        /\ pointer + request <= mem + result.usable
        /\ FreedObject = mem

(***************************************************************************)
(* C22: a non-null pointer returned by memalign(boundary, request), with   *)
(* boundary a power of two, is a multiple of boundary.                     *)
(***************************************************************************)
C22_PointerAligned ==
    pointer # NULL => pointer % boundary = 0

\* memalign has moved the pointer of a small object up to the next
\* multiple of a page.
C22_Witness ==
    /\ pointer # NULL /\ pointer > mem
    /\ boundary = PAGE_SIZE /\ result.kind = OBJECT_SMALL
    /\ pointer % boundary = 0

(***************************************************************************)
(* SpecCalloc: calloc(nmemb, request).  size_t is 64 bits wide in the      *)
(* build; the model keeps the wrap-around of its multiplication at a       *)
(* width of SizeBits bits.                                                 *)
(***************************************************************************)
SizeBits == 14
SIZE_MAX == 2 ^ SizeBits - 1
CallocCounts == {0, 1, 2, 3, 8, SIZE_MAX \div 4 + 1, SIZE_MAX \div 2 + 1, SIZE_MAX}
CallocSizes == {0, 1, 2, 8, 100, SIZE_MAX \div 4 + 1, SIZE_MAX \div 2 + 1, SIZE_MAX}

\* The product of two size_t values.
size_t_mul(a, b) == (a * b) % (SIZE_MAX + 1)

\* calloc: ptr = malloc(nmemb * size); NULL if malloc returned NULL.
calloc(n, size, idx) == malloc_route(size_t_mul(n, size), idx)

InitCalloc ==
    /\ nmemb \in CallocCounts
    /\ request \in CallocSizes
    /\ slot \in 1..MaxSlot
    /\ result = Pending
    /\ boundary = 0 /\ mem = NULL /\ pointer = NULL /\ size_class = 0
    /\ IdleOrder /\ IdleCopy
    /\ InitSuper /\ IdleTree /\ IdleBuddy /\ IdleLifo /\ IdleHeap

Calloc ==
    /\ result = Pending
    /\ result' = calloc(nmemb, request, slot)
    /\ UNCHANGED <<request, slot, orderVars, copyVars, apiVars, notSize>>

NextCalloc == Calloc
SpecCalloc == InitCalloc /\ [][NextCalloc]_vars

TableClasses == 0..(Len(reverse) - 1)

InitClass ==
    /\ size_class \in TableClasses
    /\ request = 0 /\ slot = 1 /\ result = Pending
    /\ boundary = 0 /\ mem = NULL /\ pointer = NULL /\ nmemb = 0
    /\ IdleOrder /\ IdleCopy
    /\ InitSuper /\ IdleTree /\ IdleBuddy /\ IdleLifo /\ IdleHeap

\* pageblock->object_size of a pageblock of class size_class.
ReverseClass ==
    /\ request = 0
    /\ request' = reverse_size_class(size_class)
    /\ UNCHANGED <<slot, result, orderVars, copyVars, apiVars, notSize>>

\* free: &local_heap[free_compute_size_class(pageblock->object_size)].
FreeClass ==
    /\ request # 0 /\ result = Pending
    /\ result' = [kind |-> OBJECT_SMALL, index |-> free_compute_size_class(request),
                  usable |-> request, offset |-> 0]
    /\ UNCHANGED <<request, slot, orderVars, copyVars, apiVars, notSize>>

NextClass == ReverseClass \/ FreeClass
SpecClass == InitClass /\ [][NextClass]_vars

(***************************************************************************)
(* C24 as stated: for every class index of the table, the class computed   *)
(* from the class's own object size is that class.                         *)
(***************************************************************************)
C24_ClassOfOwnSizeAll ==
    result # Pending => result.index = size_class

(***************************************************************************)
(* C24: for every class index that the classification can return (every   *)
(* index of the table but 0, whose 4-byte size is below the granularity),  *)
(* the class computed from the class's own object size is that class.      *)
(***************************************************************************)
C24_ClassOfOwnSize ==
    (result # Pending /\ size_class >= 1) => result.index = size_class

\* The last class, whose size is a multiple of 64, has been classified
\* from its own size.
C24_Witness ==
    /\ result # Pending
    /\ size_class = Len(reverse) - 1
    /\ request = MAX_OBJECT_SIZE
    /\ result.index = size_class

(***************************************************************************)
(* C25: over the small request sizes the class index never decreases when  *)
(* the size grows (stated for a size and its successor, which gives it     *)
(* for every pair), and it is an index of the table `reverse'.             *)
(***************************************************************************)
C25_ClassMonotone ==
    result.kind = OBJECT_SMALL =>
        /\ result.index \in TableClasses
        /\ request < MAX_OBJECT_SIZE =>
              result.index <= malloc_route(request + 1, slot).index

\* The request is the last size of a class: its successor is classified
\* one class higher.
C25_Witness ==
    /\ result.kind = OBJECT_SMALL
    /\ request = 64
    /\ result.index = compute_size_class(request)
    /\ malloc_route(request + 1, slot).index = result.index + 1

(***************************************************************************)
(* SpecIds: threads start and exit; thread 1 is the initial thread, which  *)
(* never passes through wrapper and keeps thread_id = 0.  The process is   *)
(* fresh (global_id_counter = 0) or has already started UINT_MAX - 3       *)
(* threads that have all exited.  global_id_counter is an unsigned int:    *)
(* like ORPHAN its value is written as the same 32 bits read as a signed   *)
(* integer, so UINT_MAX - 3 is -4 and the step from UINT_MAX to 0 is the   *)
(* step from -1 to 0.  `made' counts the threads started here, `found'     *)
(* becomes 1 when the counter has reached UINT_MAX.                        *)
(***************************************************************************)
MaxStarts == 5

InitIds ==
    /\ global_id_counter \in {0, -4}
    /\ thr = [t \in Thr |-> IF t = 1 THEN [NoThread EXCEPT !.pc = "idle"] ELSE NoThread]
    /\ pageblocks = [a \in PageblockAddrs |-> NoPageblock]
    /\ global_partial_pageblocks = [c \in Classes |-> NULL]
    /\ global_free_pageblocks = [s \in SizeIndexes |-> [top |-> NULL, count |-> 0]]
    /\ radix = <<>>
    /\ live = {}
    /\ script = [t \in Thr |-> <<>>]
    /\ IdleSize /\ InitSuper /\ IdleTree /\ IdleBuddy /\ IdleLifo

\* wrapper: thread_id = atmc_fetch_and_add(&global_id_counter, 1), for a
\* new thread (in a slot that is unused or was left by a thread that exited).
IdStart(t) ==
    /\ t # 1 /\ thr[t].pc \in {"unborn", "dead"}
    /\ made < MaxStarts
    /\ LET r == atmc_fetch_and_add(global_id_counter, 1)
       IN  /\ global_id_counter' = r.new
           /\ thr' = [thr EXCEPT ![t] = [NoThread EXCEPT !.pc = "idle", !.id = r.ret]]
           /\ found' = IF r.ret = ORPHAN THEN 1 ELSE found
    /\ made' = made + 1
    /\ UNCHANGED <<request, slot, result, arch, want, copyVars, apiVars, superVars,
                   buddyVars, lifoVars, pageblocks, global_partial_pageblocks,
                   global_free_pageblocks, radix, live, script,
                   treeVars>>

\* wrapper: streamflow_thread_finalize of a thread that holds no
\* pageblock, and the end of the thread.
IdExit(t) ==
    /\ t # 1 /\ thr[t].pc = "idle"
    /\ thr' = [thr EXCEPT ![t] = [NoThread EXCEPT !.pc = "dead"]]
    /\ UNCHANGED <<sizeVars, superVars, buddyVars, lifoVars, global_id_counter,
                   pageblocks, global_partial_pageblocks, global_free_pageblocks,
                   radix, live, script, treeVars>>

NextIds == \E t \in Thr : IdStart(t) \/ IdExit(t)
SpecIds == InitIds /\ [][NextIds]_vars

\* The threads that use the allocator.
Alive == {t \in Thr : thr[t].pc = "idle"}
DistinctIds ==
    /\ \A t \in Alive : thr[t].id # ORPHAN
    /\ \A t \in Alive : \A u \in Alive : t # u => thr[t].id # thr[u].id

DoFreeNull == [op |-> "free0", a |-> 0, b |-> 0]

NullScenarios ==
    { << <<DoFreeNull, DoMalloc(SmallRequest), DoFreeNull, DoFree(1, 1), DoFreeNull>>,
         <<DoFreeNull, DoExit>> >> }

InitNull ==
    /\ IdleSize /\ IdleBuddy /\ IdleLifo /\ InitSuper /\ IdleTree
    /\ global_id_counter = 0
    /\ thr = [t \in Thr |-> NoThread]
    /\ pageblocks = [a \in PageblockAddrs |-> NoPageblock]
    /\ global_partial_pageblocks = [c \in Classes |-> NULL]
    /\ global_free_pageblocks = [s \in SizeIndexes |-> [top |-> NULL, count |-> 0]]
    /\ radix = <<>>
    /\ live = {}
    /\ \E calls \in Scenarios \cup NullScenarios :
          script = [t \in Thr |-> IF t <= Len(calls) THEN calls[t] ELSE <<>>]

\* A free that has no early return.
free_returns_never(object) == FALSE

\* free: if (unlikely(!object)) return;
free_returns(object) == object = NULL

\* free(NULL).  Past the early return free would count the call and look
\* up page 0 in the metadata index, of which no interior node exists.
FreeNullCall(t) ==
    /\ Running /\ thr[t].pc = "idle"
    /\ IF free_returns(NULL)
       THEN UNCHANGED thr
       ELSE Crash(t)
    /\ UNCHANGED <<global_id_counter, pageblocks, global_partial_pageblocks,
                   global_free_pageblocks, radix, live, superVars, notCall>>

ScriptFreeNull(t) ==
    /\ NextCall(t, "free0")
    /\ FreeNullCall(t) /\ Called(t)

NextNull ==
    \E t \in Thr :
        \/ ScriptStart(t) \/ ScriptMalloc(t) \/ ScriptFree(t) \/ ScriptExit(t)
        \/ ScriptJoin(t) \/ ScriptStale(t) \/ ScriptFreeNull(t) \/ Step(t)

SpecNull == InitNull /\ [][NextNull]_vars

(***************************************************************************)
(* C27: a call free(NULL) returns and changes nothing of the allocator:    *)
(* no thread's heap or position, no pageblock, no global list, not the     *)
(* metadata index, not the superpage layer, not the thread id counter.     *)
(***************************************************************************)
C27_FreeNullNoOp ==
    [][(\E t \in Thr : NextCall(t, "free0") /\ script'[t] # script[t])
          => UNCHANGED <<global_id_counter, thr, pageblocks, global_partial_pageblocks,
                         global_free_pageblocks, radix, live, superVars>>]_vars

\* Thread 1 has made its three calls of free(NULL), the second of them
\* while it held an object, and is ready for further calls.
C27_Witness ==
    /\ thr[1].pc = "idle" /\ thr[1].n = 1
    /\ script[1] = <<>>
    /\ live = {}

(***************************************************************************)
(* C28: streamflow_thread_finalize makes a pageblock ORPHAN only when its  *)
(* garbage stack is empty at that moment: a remote_free whose push took    *)
(* effect before the compare-and-swap makes it fail, so that no slot on    *)
(* the garbage stack is discarded by the transition to ORPHAN.             *)
(***************************************************************************)
C28_OrphanKeepsGarbage ==
    [][\A a \in PageblockAddrs :
          (/\ pageblocks[a].owning_thread # ORPHAN
           /\ pageblocks'[a].owning_thread = ORPHAN)
              => /\ pageblocks[a].garbage_head = NoGarbage
                 /\ pageblocks'[a].garbage_head = NoGarbage]_vars

(***************************************************************************)
(* Where a pageblock can be found.                                         *)
(***************************************************************************)
\* The pageblocks linked by pageblock->next from `head'.
NextChain(head) ==
    SeqSet(Chain([a \in PageblockAddrs \cup {NULL} |->
                     IF a \in PageblockAddrs THEN pageblocks[a].next ELSE NULL],
                 head, Cardinality(PageblockAddrs)))

\* The pageblocks on the global partial lists and on the global free lists.
OnGlobalPartial == UNION {NextChain(global_partial_pageblocks[c]) : c \in Classes}
OnGlobalFree == UNION {NextChain(global_free_pageblocks[s].top) : s \in SizeIndexes}

\* The pageblocks thread t has in a local variable of the call it is in:
\* `pageblock' and `next_pageblock' with the rest of the active list in
\* streamflow_thread_finalize, `start' in superunmap.
InHand(t) ==
    IF thr[t].pc \in {"unborn", "dead", "idle"} THEN {}
    ELSE ({thr[t].pageblock, thr[t].arg.start}
            \cup (IF thr[t].pc \in {"fin", "fin_read", "fin_cas"} \/ thr[t].after = "fin"
                  THEN NextChain(thr[t].pageblock) \cup NextChain(thr[t].snap.next)
                  ELSE {})) \ {NULL}

(***************************************************************************)
(* C29: a pageblock of an exiting thread goes one way.  Fully free, it is  *)
(* given to insert_global_free_pageblocks; with a free slot or garbage, it *)
(* is on the global partial list of its class; otherwise it is ORPHAN.     *)
(* So a pageblock is never both ORPHAN and on a global list or on a        *)
(* thread's lists, a pageblock on a global partial list is on no thread's  *)
(* lists, has a free slot or garbage and is not counted fully free, and    *)
(* every pageblock is ORPHAN, on a global list or with a thread that has   *)
(* not exited: none is left that only the lists of a dead thread led to.   *)
(***************************************************************************)
C29_ExitDisposesAll ==
    \A a \in PageblockAddrs :
        IsPageblock(a, pageblocks) =>
            LET pb == pageblocks[a]
            IN  /\ \/ pb.owning_thread = ORPHAN
                   \/ a \in OnGlobalPartial \cup OnGlobalFree
                   \/ \E t \in Thr : a \in Own(t) \cup InHand(t)
                /\ pb.owning_thread = ORPHAN =>
                      /\ a \notin OnGlobalPartial \cup OnGlobalFree
                      /\ \A t \in Thr : a \notin Own(t)
                      /\ ~has_free_or_garbage(pb)
                /\ a \in OnGlobalPartial =>
                      /\ a \notin OnGlobalFree
                      /\ \A t \in Thr : a \notin Own(t)
                      /\ has_free_or_garbage(pb)
                      /\ pb.num_free_objects < slot_count(pb)
                      /\ a \in NextChain(global_partial_pageblocks[
                                        compute_size_class(pb.object_size)])
                /\ a \in OnGlobalFree =>
                      /\ \A t \in Thr : a \notin Own(t)
                      /\ pb.num_free_objects = slot_count(pb)

(***************************************************************************)
(* SpecCollect: scripted runs in which remote frees meet a collection.     *)
(* In the first the owner allocates again while another thread frees its   *)
(* two objects (malloc's garbage_collect of the head of the active list);  *)
(* in the second the owner exits meanwhile and a third thread takes the    *)
(* pageblock from the global partial list (get_free_pageblock's            *)
(* garbage_collect).  The scenarios of SpecScenario in which every free    *)
(* is of an object the caller holds are run as well.                       *)
(***************************************************************************)
CollectScenarios ==
    { << <<DoMalloc(SmallRequest), DoMalloc(SmallRequest), DoMalloc(SmallRequest),
           DoMalloc(SmallRequest)>>,
         <<DoFree(1, 1), DoFree(1, 2)>> >>,
      << <<DoMalloc(SmallRequest), DoMalloc(SmallRequest), DoExit>>,
         <<DoFree(1, 1), DoFree(1, 2)>>,
         <<DoMalloc(SmallRequest), DoMalloc(SmallRequest)>> >> }
        \cup {calls \in Scenarios :
                 \A t \in 1..Len(calls) : \A i \in 1..Len(calls[t]) :
                     calls[t][i].op # "stale"}

InitCollect ==
    /\ IdleSize /\ IdleBuddy /\ IdleLifo /\ InitSuper /\ IdleTree
    /\ global_id_counter = 0
    /\ thr = [t \in Thr |-> NoThread]
    /\ pageblocks = [a \in PageblockAddrs |-> NoPageblock]
    /\ global_partial_pageblocks = [c \in Classes |-> NULL]
    /\ global_free_pageblocks = [s \in SizeIndexes |-> [top |-> NULL, count |-> 0]]
    /\ radix = <<>>
    /\ live = {}
    /\ \E calls \in CollectScenarios :
          script = [t \in Thr |-> IF t <= Len(calls) THEN calls[t] ELSE <<>>]

NextCollect ==
    \E t \in Thr :
        \/ ScriptStart(t) \/ ScriptMalloc(t) \/ ScriptFree(t) \/ ScriptExit(t)
        \/ ScriptJoin(t) \/ Step(t)

SpecCollect == InitCollect /\ [][NextCollect]_vars

(***************************************************************************)
(* garbage_collect as the steps of the heap show it.                       *)
(***************************************************************************)
\* The step takes the garbage stack of pageblock `a' whole and leaves the
\* pageblock with an owner: it is a garbage_collect of `a'.
Collects(a) ==
    /\ IsPageblock(a, pageblocks) /\ IsPageblock(a, pageblocks')
    /\ pageblocks[a].garbage_head # NoGarbage
    /\ pageblocks'[a].garbage_head = NoGarbage
    /\ pageblocks'[a].owning_thread # ORPHAN

\* The slots of pageblock `a' that the step hands to a caller.
Handed(a) ==
    {slot_index(a, pageblocks'[a], p.addr) :
        p \in {q \in live' \ live : /\ q.kind = OBJECT_SMALL
                                    /\ q.addr >= a
                                    /\ q.addr < a + MIN_PAGEBLOCK_SIZE}}

\* The step is a push of remote_free on the garbage stack of `a'.
Pushes(a) ==
    /\ IsPageblock(a, pageblocks) /\ IsPageblock(a, pageblocks')
    /\ pageblocks'[a].garbage_head.count = pageblocks[a].garbage_head.count + 1

(***************************************************************************)
(* C30: garbage_collect takes the garbage stack whole and leaves it empty; *)
(* the slots it took, as many as the count of the head says, are the freed *)
(* list afterwards (but for the one the same malloc hands out), the free   *)
(* count grows by that number, and no slot that was on the freed list is   *)
(* dropped.  A push of remote_free puts its slot on top of the stack that  *)
(* is there at its compare-and-swap, so a push is in one collection only.  *)
(***************************************************************************)
C30_GarbageCollectExact ==
    [][\A a \in PageblockAddrs :
          /\ Collects(a) =>
                /\ pageblocks[a].garbage_head.count = Len(remote_garbage(a))
                /\ SeqSet(remote_garbage(a))
                       = SeqSet(local_free_slots(a)') \cup Handed(a)
                /\ SeqSet(local_free_slots(a)') \cap Handed(a) = {}
                /\ Len(local_free_slots(a)') + Cardinality(Handed(a))
                       = Len(remote_garbage(a))
                /\ pageblocks'[a].num_free_objects + Cardinality(Handed(a))
                       = pageblocks[a].num_free_objects
                             + pageblocks[a].garbage_head.count
                /\ SeqSet(local_free_slots(a)) \subseteq
                       SeqSet(local_free_slots(a)') \cup Handed(a)
          /\ Pushes(a) =>
                /\ remote_garbage(a)' =
                       <<pageblocks'[a].garbage_head.next>> \o remote_garbage(a)
                /\ pageblocks'[a].garbage_head.next \notin SeqSet(remote_garbage(a))
                /\ pageblocks'[a].freed = pageblocks[a].freed
                /\ pageblocks'[a].num_free_objects = pageblocks[a].num_free_objects
      ]_vars

\* A remote_free read a head with one slot on the stack; before its
\* compare-and-swap the owner's malloc collected that slot: the stack is
\* empty, the slot is with a caller again, and the owner is at rest.
C30_Witness ==
    \E t \in Thr, a \in PageblockAddrs :
        /\ thr[t].pc = "remote_cas" /\ thr[t].pageblock = a
        /\ IsPageblock(a, pageblocks)
        /\ thr[t].snap.head.count = 1
        /\ pageblocks[a].garbage_head = NoGarbage
        /\ pageblocks[a].owning_thread # ORPHAN
        /\ thr[t].snap.head.next \in in_use(a)
        /\ \E u \in Thr \ {t} : /\ thr[u].pc = "idle"
                                 /\ thr[u].id = pageblocks[a].owning_thread

(***************************************************************************)
(* local_free as the steps of the heap show it.                            *)
(***************************************************************************)
\* The step is a local_free by thread t of an object of pageblock `a',
\* which is on t's active list of class c: one more slot is free and the
\* garbage stack is as it was.
LocalFrees(t, a, c) ==
    /\ thr[t].pc = "idle"
    /\ a \in SeqSet(thr[t].heap[c])
    /\ IsPageblock(a, pageblocks) /\ IsPageblock(a, pageblocks')
    /\ pageblocks[a].owning_thread = thr[t].id
    /\ pageblocks'[a].num_free_objects = pageblocks[a].num_free_objects + 1
    /\ pageblocks'[a].garbage_head = pageblocks[a].garbage_head
    /\ \E p \in live \ live' : p.kind = OBJECT_SMALL /\ p.addr >= a
                                /\ p.addr < a + MIN_PAGEBLOCK_SIZE

\* C31: a local_free that takes a pageblock from no free slot to one,
\* and does not make it fully free, leaves the pageblock at the head of
\* the thread's active list of its class.
C31_FirstFreePromotes ==
    [][\A t \in Thr, a \in PageblockAddrs, c \in Classes :
          (/\ LocalFrees(t, a, c)
           /\ pageblocks[a].num_free_objects = 0
           /\ slot_count(pageblocks[a]) > 1)
              => /\ thr'[t].heap[c] # <<>>
                 /\ Head(thr'[t].heap[c]) = a]_vars

(***************************************************************************)
(* SpecCache: a thread that fills five pageblocks, frees every object and  *)
(* exits, so that its inactive cache reaches MAX_PRIVATE_INACTIVE, with    *)
(* the scenarios of SpecCollect.                                           *)
(***************************************************************************)
CacheScenarios ==
    { << <<DoMalloc(SmallRequest), DoMalloc(SmallRequest), DoMalloc(SmallRequest),
           DoMalloc(SmallRequest), DoMalloc(SmallRequest), DoMalloc(SmallRequest),
           DoMalloc(SmallRequest), DoMalloc(SmallRequest), DoMalloc(SmallRequest),
           DoFree(1, 1), DoFree(1, 2), DoFree(1, 3), DoFree(1, 4), DoFree(1, 5),
           DoFree(1, 6), DoFree(1, 7), DoFree(1, 8), DoFree(1, 9),
           DoMalloc(SmallRequest), DoExit>> >> }
        \cup CollectScenarios

InitCache ==
    /\ IdleSize /\ IdleBuddy /\ IdleLifo /\ InitSuper /\ IdleTree
    /\ global_id_counter = 0
    /\ thr = [t \in Thr |-> NoThread]
    /\ pageblocks = [a \in PageblockAddrs |-> NoPageblock]
    /\ global_partial_pageblocks = [c \in Classes |-> NULL]
    /\ global_free_pageblocks = [s \in SizeIndexes |-> [top |-> NULL, count |-> 0]]
    /\ radix = <<>>
    /\ live = {}
    /\ \E calls \in CacheScenarios :
          script = [t \in Thr |-> IF t <= Len(calls) THEN calls[t] ELSE <<>>]

NextCache ==
    \E t \in Thr :
        \/ ScriptStart(t) \/ ScriptMalloc(t) \/ ScriptFree(t) \/ ScriptExit(t)
        \/ ScriptJoin(t) \/ Step(t)

SpecCache == InitCache /\ [][NextCache]_vars

\* The inactive caches of thread t hold no more than their capacity and
\* their count fields say how many pageblocks they hold.
CacheExact(t) ==
    \A s \in SizeIndexes :
        /\ Len(thr[t].inactive[s]) <= MAX_PRIVATE_INACTIVE
        /\ thr[t].count[s] = Len(thr[t].inactive[s])

\* Thread t is in streamflow_thread_finalize.
Finalizing(t) ==
    \/ thr[t].pc \in {"fin", "fin_read", "fin_cas"}
    \/ thr[t].pc \in {"unmap_lock", "unmap_body"} /\ thr[t].after = "fin"

\* What local_free does with a pageblock `a' of class c that it has made
\* fully free: off the active list, and on top of the inactive cache if
\* that holds fewer pageblocks than its capacity, else given to
\* insert_global_free_pageblocks (on top of the global free list or, the
\* list being at its capacity, on to superunmap).
FullyFreeGoes(t, a, c) ==
    LET s == pageblock_size_index(pageblocks[a].mem_pool_size + MemPoolOffset)
    IN  /\ a \notin SeqSet(thr'[t].heap[c])
        /\ IF Len(thr[t].inactive[s]) < MAX_PRIVATE_INACTIVE
           THEN /\ thr'[t].inactive[s] = <<a>> \o thr[t].inactive[s]
                /\ global_free_pageblocks' = global_free_pageblocks
                /\ thr'[t].pc = "idle"
           ELSE /\ thr'[t].inactive[s] = thr[t].inactive[s]
                /\ \/ global_free_pageblocks'[s].top = a
                   \/ thr'[t].pc = "unmap_lock" /\ thr'[t].arg.start = a

GetsPageblock(t, a, c) ==
    /\ thr[t].pc \in {"idle", "pop_cas", "map_body"}
    /\ thr'[t].pc # "crashed"
    /\ a \notin SeqSet(thr[t].heap[c])
    /\ a \in SeqSet(thr'[t].heap[c])

\* The objects that the step returns to thread t.
Returned(t) == {p \in live' \ live : p.by = t}

\* Pointer p is a slot of pageblock `a' that no caller held before the
\* step.
FreeSlotOf(p, a) ==
    LET pb == pageblocks'[a]
    IN  /\ p.kind = OBJECT_SMALL
        /\ mem_pool(a) <= p.addr
        /\ p.addr + pb.object_size <= mem_pool(a) + pb.mem_pool_size
        /\ (p.addr - mem_pool(a)) % pb.object_size = 0
        /\ \A q \in live : q.addr + q.usable <= p.addr
                              \/ p.addr + pb.object_size <= q.addr

\* C33: the pageblock that get_free_pageblock(k) returns has the object
\* size of class k, is owned by the caller and is the head of the
\* caller's active list of class k, and has a free slot: the malloc that
\* called it returns a slot of the pageblock that nobody held, after
\* which the pageblock is still the head or, having no free slot left,
\* has been rotated to the back.
C33_GetFreePageblock ==
    [][\A t \in Thr, a \in PageblockAddrs, c \in Classes :
          GetsPageblock(t, a, c) =>
              LET list == thr'[t].heap[c]
              IN  /\ IsPageblock(a, pageblocks')
                  /\ pageblocks'[a].object_size = reverse_size_class(c)
                  /\ pageblocks'[a].owning_thread = thr[t].id
                  /\ \E p \in Returned(t) : FreeSlotOf(p, a)
                  /\ \/ Head(list) = a
                     \/ /\ pageblocks'[a].num_free_objects = 0
                        /\ list[Len(list)] = a]_vars

(***************************************************************************)
(* buddy_alloc as the steps of SpecBuddy show it.                          *)
(***************************************************************************)
\* The free chunk that the buddy_alloc which returned chunk c took from a
\* free list, and its order: the head of the list of the lowest sufficient
\* order that is not empty, or the whole of a superpage mapped for the
\* call.
SplitChunk(c) ==
    LET order == quick_log2(c.length \div PAGE_SIZE)
        fresh == c.sph \notin SeqSet(superpage_list)
        fit == {o \in Orders : o >= order /\ superpages[c.sph].free_list[o] # <<>>}
        curr_order == IF fresh THEN BUDDY_ORDER_MAX - 1
                      ELSE CHOOSE o \in fit : \A q \in fit : o <= q
    IN  [chunk |-> IF fresh THEN superpages'[c.sph].page_pool
                   ELSE Head(superpages[c.sph].free_list[curr_order]),
         curr_order |-> curr_order, order |-> order]

\* C34 as stated: when buddy_alloc splits a chunk of a higher order, the
\* right half goes on the free list of the next lower order at each step
\* and the left half is split further, so the chunk returned is the
\* lowest-address part of the chunk that was split.
C34_SplitKeepsLeft ==
    [][\A c \in chunks' \ chunks :
          LET s == SplitChunk(c)
          IN  s.curr_order > s.order =>
                /\ c.start = s.chunk
                /\ \A o \in s.order..(s.curr_order - 1) :
                      Head(superpages'[c.sph].free_list[o])
                          = s.chunk + (2 ^ o) * PAGE_SIZE]_vars

(***************************************************************************)
(* C34: when buddy_alloc splits a chunk of a higher order, the left        *)
(* (lower-address) half goes on the free list of the next lower order at   *)
(* each step and the right half is split further, so the chunk returned is *)
(* the highest-address part of the chunk that was split.                   *)
(***************************************************************************)
C34_SplitKeepsRight ==
    [][\A c \in chunks' \ chunks :
          LET s == SplitChunk(c)
          IN  s.curr_order > s.order =>
                /\ c.start + c.length = s.chunk + (2 ^ s.curr_order) * PAGE_SIZE
                /\ \A o \in s.order..(s.curr_order - 1) :
                      Head(superpages'[c.sph].free_list[o])
                          = s.chunk + (2 ^ s.curr_order - 2 ^ (o + 1)) * PAGE_SIZE]_vars

\* A single page was split off a whole superpage: it is the last page of
\* the superpage, and the chunks on the free lists lie below it.
C34_Witness ==
    \E c \in chunks :
        /\ c.length = PAGE_SIZE
        /\ c.start = superpages[c.sph].page_pool + SUPERPAGE_SIZE - PAGE_SIZE
        /\ \A o \in 0..(BUDDY_ORDER_MAX - 2) :
              /\ superpages[c.sph].free_list[o] # <<>>
              /\ Head(superpages[c.sph].free_list[o]) < c.start

(***************************************************************************)
(* largest_free_order and the scan of get_free_superpage.                  *)
(***************************************************************************)
\* The orders of superpage h that have a free chunk.
FreeOrders(h) == {o \in Orders : superpages[h].free_list[o] # <<>>}

\* Superpage h has a free chunk for a request of `size' bytes.
CanServe(h, size) == \E o \in FreeOrders(h) : (2 ^ o) * PAGE_SIZE >= size

\* largest_free_order of every superpage on superpage_list is the highest
\* order that has a free chunk, or BUDDY_ORDER_MAX + 1 when none has.
LargestExact ==
    \A i \in 1..Len(superpage_list) :
        LET h == superpage_list[i]
        IN  superpages[h].largest_free_order =
                IF FreeOrders(h) = {} THEN BUDDY_ORDER_MAX + 1
                ELSE CHOOSE o \in FreeOrders(h) : \A q \in FreeOrders(h) : q <= o

(***************************************************************************)
(* C35: after every buddy_alloc and buddy_free, largest_free_order of a    *)
(* superpage is the highest order whose free list is not empty, or the     *)
(* value that stands for `nothing free' when every list is empty; supermap *)
(* takes a chunk from a superpage of the list only if that superpage has a *)
(* free chunk that is large enough, and maps a new superpage only if no    *)
(* superpage of the list has one.                                          *)
(***************************************************************************)
C35_LargestFreeOrder ==
    [][/\ LargestExact'
       /\ \A c \in chunks' \ chunks :
            IF \E i \in 1..Len(superpage_list) : CanServe(superpage_list[i], c.length)
            THEN /\ c.sph \in SeqSet(superpage_list)
                 /\ CanServe(c.sph, c.length)
                 /\ superpage_list' = superpage_list
            ELSE /\ c.sph \notin SeqSet(superpage_list)
                 /\ superpage_list' = <<c.sph>> \o superpage_list]_vars

\* Two superpages are in use: the first one mapped has no free chunk left
\* and the value for `nothing free', the other one has free chunks below
\* its highest order.
C35_Witness ==
    /\ Len(superpage_list) = 2
    /\ LET full == superpages[superpage_list[2]]
           part == superpages[superpage_list[1]]
       IN  /\ \A o \in Orders : full.free_list[o] = <<>>
           /\ full.largest_free_order = BUDDY_ORDER_MAX + 1
           /\ part.largest_free_order < BUDDY_ORDER_MAX - 1
           /\ part.free_list[part.largest_free_order] # <<>>

(***************************************************************************)
(* The routing of malloc by size (SpecSize).                               *)
(***************************************************************************)
\* The chunk sizes of supermap: a power of two of pages, up to a superpage.
PageRuns == {(2 ^ o) * PAGE_SIZE : o \in Orders}

MaxRegisters == 1
MaxRun == 2

level1_of(page) == page \div (2 ^ (RADIX_INTERIOR_BITS + RADIX_LEAF_BITS))
level2_of(page) == (page \div (2 ^ RADIX_LEAF_BITS)) % RADIX_INTERIOR_SIZE
level3_of(page) == page % RADIX_LEAF_SIZE

\* The pages of the call a thread is in.
RunOf(R) == IF R.pc = "idle" THEN {} ELSE R.start..(R.start + R.num_pages - 1)

\* page_alloc for a node: mmap returns a range the provider does not hold,
\* here one of the MmapChoices lowest such ranges.
MmapChoices == 1
FreeNodes(nodes) ==
    LET free == {a \in NodeAddrs : ~nodes[a].mapped}
    IN  {a \in free : Cardinality({b \in free : b < a}) < MmapChoices}
\* page_free of a node: munmap.
page_free_node(nodes, a) == [nodes EXCEPT ![a] = NoNode]

\* compare_and_swap_ptr that stores whatever the word holds.
compare_and_swap_ptr_blind(cell, old, new) == [ok |-> TRUE, new |-> new]

compare_and_swap_ptr(cell, old, new) == compare_and_swap(cell, old, new)

\* radix_root->prefixes[level1] and ...->prefixes[level2] for a page.
Level1Node(root, nodes, page) == nodes[root].prefixes[level1_of(page)]
Level2Node(root, nodes, page) ==
    nodes[Level1Node(root, nodes, page)].prefixes[level2_of(page)]

InitRadix ==
    /\ IdleSize /\ IdleBuddy /\ IdleLifo /\ InitSuper /\ IdleHeap /\ IdleTree

\* A call radix_register(start, num_pages, ptr, size, OBJECT_SMALL) begins.
RegisterCall(t) ==
    /\ registering[t].pc = "idle"
    /\ registering[t].n < MaxRegisters
    /\ \E start \in RadixPages, num_pages \in 1..MaxRun :
          /\ start + num_pages - 1 \in RadixPages
          /\ \A u \in RThreads \ {t} :
                RunOf(registering[u]) \cap (start..(start + num_pages - 1)) = {}
          /\ registering' = [registering EXCEPT ![t] =
                 [pc |-> "root_test", start |-> start, num_pages |-> num_pages,
                  ptr |-> t * PAGE_SIZE, i |-> 0, page |-> start, temp |-> NULL,
                  n |-> registering[t].n + 1, lost |-> registering[t].lost]]
    /\ UNCHANGED <<radix_root, radix_nodes, registered, notTree>>

\* if (radix_root == NULL) temp_root = radix_interior_alloc();
RootTest(t) ==
    /\ registering[t].pc = "root_test"
    /\ IF radix_root = NULL
       THEN \E a \in FreeNodes(radix_nodes) :
               /\ radix_nodes' = [radix_nodes EXCEPT ![a] = FreshNode]
               /\ registering' = [registering EXCEPT ![t].pc = "root_cas", ![t].temp = a]
       ELSE /\ registering' = [registering EXCEPT ![t].pc = "l1_test"]
            /\ UNCHANGED radix_nodes
    /\ UNCHANGED <<radix_root, registered, notTree>>

\* compare_and_swap_ptr(&radix_root, NULL, temp_root)
RootCas(t) ==
    /\ registering[t].pc = "root_cas"
    /\ LET r == compare_and_swap_ptr(radix_root, NULL, registering[t].temp)
       IN  /\ radix_root' = r.new
           /\ registering' = [registering EXCEPT
                  ![t].pc = IF r.ok THEN "l1_test" ELSE "root_free",
                  ![t].lost = IF r.ok THEN @ ELSE @ + 1,
                  ![t].temp = IF r.ok THEN NULL ELSE @]
    /\ UNCHANGED <<radix_nodes, registered, notTree>>

\* radix_interior_free(temp_root)
RootFree(t) ==
    /\ registering[t].pc = "root_free"
    /\ radix_nodes' = page_free_node(radix_nodes, registering[t].temp)
    /\ registering' = [registering EXCEPT ![t].pc = "l1_test", ![t].temp = NULL]
    /\ UNCHANGED <<radix_root, registered, notTree>>

\* if (radix_root->prefixes[level1] == NULL) temp_interior = radix_interior_alloc();
Level1Test(t) ==
    /\ registering[t].pc = "l1_test"
    /\ IF Level1Node(radix_root, radix_nodes, registering[t].page) = NULL
       THEN \E a \in FreeNodes(radix_nodes) :
               /\ radix_nodes' = [radix_nodes EXCEPT ![a] = FreshNode]
               /\ registering' = [registering EXCEPT ![t].pc = "l1_cas", ![t].temp = a]
       ELSE /\ registering' = [registering EXCEPT ![t].pc = "l2_test"]
            /\ UNCHANGED radix_nodes
    /\ UNCHANGED <<radix_root, registered, notTree>>

\* compare_and_swap_ptr(&radix_root->prefixes[level1], NULL, temp_interior)
Level1Cas(t) ==
    /\ registering[t].pc = "l1_cas"
    /\ LET k == level1_of(registering[t].page)
           r == compare_and_swap_ptr(radix_nodes[radix_root].prefixes[k], NULL,
                                     registering[t].temp)
       IN  /\ radix_nodes' = [radix_nodes EXCEPT ![radix_root].prefixes[k] = r.new]
           /\ registering' = [registering EXCEPT
                  ![t].pc = IF r.ok THEN "l2_test" ELSE "l1_free",
                  ![t].lost = IF r.ok THEN @ ELSE @ + 1,
                  ![t].temp = IF r.ok THEN NULL ELSE @]
    /\ UNCHANGED <<radix_root, registered, notTree>>

\* radix_interior_free(temp_interior)
Level1Free(t) ==
    /\ registering[t].pc = "l1_free"
    /\ radix_nodes' = page_free_node(radix_nodes, registering[t].temp)
    /\ registering' = [registering EXCEPT ![t].pc = "l2_test", ![t].temp = NULL]
    /\ UNCHANGED <<radix_root, registered, notTree>>

\* if (radix_root->prefixes[level1]->prefixes[level2] == NULL)
\*     temp_leaf = radix_leaf_alloc();
Level2Test(t) ==
    /\ registering[t].pc = "l2_test"
    /\ IF Level2Node(radix_root, radix_nodes, registering[t].page) = NULL
       THEN \E a \in FreeNodes(radix_nodes) :
               /\ radix_nodes' = [radix_nodes EXCEPT ![a] = FreshNode]
               /\ registering' = [registering EXCEPT ![t].pc = "l2_cas", ![t].temp = a]
       ELSE /\ registering' = [registering EXCEPT ![t].pc = "store"]
            /\ UNCHANGED radix_nodes
    /\ UNCHANGED <<radix_root, registered, notTree>>

\* compare_and_swap_ptr(&radix_root->prefixes[level1]->prefixes[level2], NULL,
\*                      temp_leaf)
Level2Cas(t) ==
    /\ registering[t].pc = "l2_cas"
    /\ LET b == Level1Node(radix_root, radix_nodes, registering[t].page)
           k == level2_of(registering[t].page)
           r == compare_and_swap_ptr(radix_nodes[b].prefixes[k], NULL,
                                     registering[t].temp)
       IN  /\ radix_nodes' = [radix_nodes EXCEPT ![b].prefixes[k] = r.new]
           /\ registering' = [registering EXCEPT
                  ![t].pc = IF r.ok THEN "store" ELSE "l2_free",
                  ![t].lost = IF r.ok THEN @ ELSE @ + 1,
                  ![t].temp = IF r.ok THEN NULL ELSE @]
    /\ UNCHANGED <<radix_root, registered, notTree>>

\* radix_leaf_free(temp_leaf)
Level2Free(t) ==
    /\ registering[t].pc = "l2_free"
    /\ radix_nodes' = page_free_node(radix_nodes, registering[t].temp)
    /\ registering' = [registering EXCEPT ![t].pc = "store", ![t].temp = NULL]
    /\ UNCHANGED <<radix_root, registered, notTree>>

\* ((radix_leaf_t*)radix_root->prefixes[level1]->prefixes[level2])
\*     ->values[level3] = record; page += 1; and the loop's test.
StoreRecord(t) ==
    /\ registering[t].pc = "store"
    /\ LET R == registering[t]
           leaf == Level2Node(radix_root, radix_nodes, R.page)
           record == page_record(R.ptr, 0, OBJECT_SMALL)
       IN  /\ radix_nodes' = [radix_nodes EXCEPT
                  ![leaf].values[level3_of(R.page)] = record]
           /\ registered' = [registered EXCEPT ![R.page] = record]
           /\ registering' = [registering EXCEPT ![t] =
                  IF R.i + 1 < R.num_pages
                  THEN [R EXCEPT !.pc = "l1_test", !.i = @ + 1, !.page = @ + 1]
                  ELSE [NoRegister EXCEPT !.n = R.n, !.lost = R.lost]]
    /\ UNCHANGED <<radix_root, notTree>>

NextRadix ==
    \E t \in RThreads :
        \/ RegisterCall(t)
        \/ RootTest(t) \/ RootCas(t) \/ RootFree(t)
        \/ Level1Test(t) \/ Level1Cas(t) \/ Level1Free(t)
        \/ Level2Test(t) \/ Level2Cas(t) \/ Level2Free(t)
        \/ StoreRecord(t)

SpecRadix == InitRadix /\ [][NextRadix]_vars

\* The nodes the tree holds: the root, the nodes its slots name, and the
\* leaves their slots name.
InteriorNodes ==
    IF radix_root = NULL THEN {}
    ELSE {radix_root} \cup
         ({radix_nodes[radix_root].prefixes[k] : k \in 0..(RADIX_INTERIOR_SIZE - 1)}
              \ {NULL})
LeafNodes ==
    IF radix_root = NULL THEN {}
    ELSE {radix_nodes[b].prefixes[k] :
              b \in InteriorNodes \ {radix_root}, k \in 0..(RADIX_INTERIOR_SIZE - 1)}
              \ {NULL}
TreeNodes == InteriorNodes \cup LeafNodes

\* The record the tree holds for a page (the read of radix_extract), the
\* zero record where the path to it is missing.
TreeRecord(page) ==
    IF radix_root = NULL THEN ZeroRecord
    ELSE IF Level1Node(radix_root, radix_nodes, page) = NULL THEN ZeroRecord
    ELSE IF Level2Node(radix_root, radix_nodes, page) = NULL THEN ZeroRecord
    ELSE radix_nodes[Level2Node(radix_root, radix_nodes, page)].values[level3_of(page)]

\* The word a thread's compare-and-swap is about.
CasWord(t) ==
    LET R == registering[t]
    IN  IF R.pc = "root_cas" THEN radix_root
        ELSE IF R.pc = "l1_cas" THEN Level1Node(radix_root, radix_nodes, R.page)
        ELSE Level2Node(radix_root, radix_nodes, R.page)
AtCas(t) == registering[t].pc \in {"root_cas", "l1_cas", "l2_cas"}
AtFree(t) == registering[t].pc \in {"root_free", "l1_free", "l2_free"}

\* C37: under concurrent calls of radix_register the word radix_root and
\* every slot of an interior node of the tree change only from NULL to a
\* node and never again; a compare-and-swap that finds the word NULL
\* installs the thread's node, one that finds a node leaves the word alone
\* and the thread then frees its own node, which is not in the tree, and
\* goes on with the installed one; a node of the tree is never freed; and
\* the tree holds for every page the record last stored for it.
C37_InteriorSlotsInsertOnly ==
    [][/\ radix_root # NULL => radix_root' = radix_root
       /\ \A a \in InteriorNodes, k \in 0..(RADIX_INTERIOR_SIZE - 1) :
              radix_nodes[a].prefixes[k] # NULL
                  => radix_nodes'[a].prefixes[k] = radix_nodes[a].prefixes[k]
       /\ \A a \in TreeNodes : radix_nodes'[a].mapped /\ a \in TreeNodes'
       /\ \A t \in RThreads :
              /\ (AtCas(t) /\ registering'[t] # registering[t] /\ CasWord(t) = NULL)
                     => /\ registering[t].temp \in TreeNodes' \ TreeNodes
                        /\ ~AtFree(t)'
              /\ (AtCas(t) /\ registering'[t] # registering[t] /\ CasWord(t) # NULL)
                     => /\ TreeNodes' = TreeNodes
                        /\ AtFree(t)'
                        /\ registering'[t].temp = registering[t].temp
              /\ (AtFree(t) /\ registering'[t] # registering[t])
                     => /\ registering[t].temp \notin TreeNodes
                        /\ ~radix_nodes'[registering[t].temp].mapped
                        /\ \A a \in NodeAddrs \ {registering[t].temp} :
                               radix_nodes'[a] = radix_nodes[a]
                        /\ TreeNodes' = TreeNodes
       /\ \A page \in RadixPages : TreeRecord(page)' = registered'[page]]_vars

\* Both threads have returned from radix_register, thread 2 after losing a
\* compare-and-swap, and the leaf both stored to holds both records.
C37_Witness ==
    /\ \A t \in RThreads : registering[t].pc = "idle" /\ registering[t].n = 1
    /\ registering[2].lost > 0
    /\ \E page \in RadixPages :
          /\ level3_of(page) = 0
          /\ TreeRecord(page) = page_record(1 * PAGE_SIZE, 0, OBJECT_SMALL)
          /\ TreeRecord(page + 1) = page_record(2 * PAGE_SIZE, 0, OBJECT_SMALL)
    /\ Cardinality(TreeNodes) = 3

(***************************************************************************)
(* SpecReuse: pageblocks that get_free_pageblock takes from the inactive   *)
(* cache or from the global partial list, with requests of two classes     *)
(* whose pageblocks have the same size.  In the first scenario a thread    *)
(* frees its only object and then asks for the other class, and so on      *)
(* until it exits; in the second                                           *)
(* a thread exits with a partly free pageblock and another thread asks     *)
(* for both classes; in the third the threads of SpecRace go on to free    *)
(* the objects of the pageblock that the stale pop put back on the list    *)
(* and to ask for the other class.                                         *)
(***************************************************************************)
ReuseScenarios ==
    { << <<DoMalloc(SmallRequest), DoFree(1, 1), DoMalloc(OtherRequest),
           DoFree(1, 2), DoMalloc(SmallRequest), DoFree(1, 3), DoExit>> >>,
      << <<DoMalloc(SmallRequest), DoMalloc(SmallRequest), DoFree(1, 1), DoExit>>,
         <<DoJoin(1), DoMalloc(OtherRequest), DoMalloc(SmallRequest), DoFree(1, 2)>> >>,
      << <<DoMalloc(SmallRequest), DoMalloc(SmallRequest), DoMalloc(SmallRequest),
           DoFree(1, 1), DoExit>>,
         <<DoJoin(1), DoMalloc(SmallRequest)>>,
         <<DoJoin(1), DoMalloc(SmallRequest), DoMalloc(SmallRequest), DoFree(3, 1),
           DoExit>>,
         <<DoJoin(3), DoFree(3, 2), DoFree(1, 3), DoMalloc(OtherRequest),
           DoMalloc(SmallRequest)>> >> }

InitReuse ==
    /\ IdleSize /\ IdleBuddy /\ IdleLifo /\ InitSuper /\ IdleTree
    /\ global_id_counter = 0
    /\ thr = [t \in Thr |-> NoThread]
    /\ pageblocks = [a \in PageblockAddrs |-> NoPageblock]
    /\ global_partial_pageblocks = [c \in Classes |-> NULL]
    /\ global_free_pageblocks = [s \in SizeIndexes |-> [top |-> NULL, count |-> 0]]
    /\ radix = <<>>
    /\ live = {}
    /\ \E calls \in ReuseScenarios :
          script = [t \in Thr |-> IF t <= Len(calls) THEN calls[t] ELSE <<>>]

NextReuse ==
    \E t \in Thr :
        \/ ScriptStart(t) \/ ScriptMalloc(t) \/ ScriptFree(t) \/ ScriptExit(t)
        \/ ScriptJoin(t) \/ Step(t)

SpecReuse == InitReuse /\ [][NextReuse]_vars

\* The step gives pageblock `a' the slot geometry of another class: the
\* reset of get_free_pageblock for a pageblock that is not fresh from
\* supermap.
ResetsGeometry(a) ==
    /\ IsPageblock(a, pageblocks) /\ IsPageblock(a, pageblocks')
    /\ pageblocks'[a].object_size # pageblocks[a].object_size

\* C38: get_free_pageblock resets a pageblock's slot geometry for another
\* size class only when no caller holds one of its slots and no slot is on
\* its garbage stack (every slot is counted free), so that the reset makes
\* no held slot allocatable; a pageblock with a held or remotely freed slot
\* is reused with the object size it has.
C38_ResetOnlyWhenEmpty ==
    [][\A a \in PageblockAddrs :
          ResetsGeometry(a) =>
              /\ HeldIn(a) = {}
              /\ pageblocks[a].garbage_head.next = 0
              /\ pageblocks[a].num_free_objects = slot_count(pageblocks[a])]_vars
(***************************************************************************)
(* SpecFair: the scripted threads of SpecCache with every thread scheduled *)
(* again and again: a step of a thread that stays possible is eventually   *)
(* taken.  A thread in spin_lock is at map_lock or unmap_lock and its step *)
(* is possible when the lock word is 0.                                    *)
(***************************************************************************)
Scheduled == \A t \in Thr : WF_vars(Step(t))
SpecFair == SpecCache /\ Scheduled

\* Thread t is inside malloc, free or streamflow_thread_finalize.
InCall(t) == thr[t].pc \notin {"unborn", "idle", "dead"}
\* Thread t is between spin_lock and spin_unlock.
HoldsLock(t) == thr[t].pc \in {"map_body", "unmap_body"}

\* The step is a failed compare-and-swap of a retry loop of thread t:
\* remote_free goes back to its reads, lf_lifo_dequeue to its read of top.
Retries(t) ==
    \/ thr[t].pc = "remote_cas" /\ thr'[t].pc = "remote_read"
    \/ thr[t].pc = "pop_cas" /\ thr'[t].pc = "pop_read"
\* The word a retry loop's compare-and-swap is on, and what the thread
\* read from it.
CasTarget(t) ==
    LET T == thr[t]
    IN  IF T.pc = "remote_cas" THEN together(pageblocks[T.pageblock])
        ELSE IF T.queue = "partial" THEN global_partial_pageblocks[T.index]
        ELSE global_free_pageblocks[
                 pageblock_size_index(compute_pageblock_size(T.index))].top
CasExpected(t) ==
    LET T == thr[t]
    IN  IF T.pc = "remote_cas" THEN <<T.snap.id, T.snap.head>> ELSE T.pageblock

\* super_lock is taken exactly while one thread is between spin_lock and
\* spin_unlock.
LockDiscipline ==
    /\ Cardinality({t \in Thr : HoldsLock(t)}) <= 1
    /\ super_lock = 1 <=> \E t \in Thr : HoldsLock(t)

====
